---- MODULE Spec2Model ----
(***************************************************************************)
(* A model of the PyCTAKES clinical annotation pipeline:                   *)
(*   - the pipeline orchestrator (pyctakes/pipeline.py) together with the  *)
(*     Annotator base class (pyctakes/annotators/base.py),                 *)
(*   - the entity overlap resolver (pyctakes/annotators/ner.py),           *)
(*   - the assertion engine (pytakes/annotators/assertion.py), alone and   *)
(*     on a document text with its tokeniser and cue discovery,            *)
(*   - the section detector (pytakes/annotators/sections.py) and the       *)
(*     rule-based sentence segmenter (pyctakes/annotators/tokenization.py),*)
(*   - the data model (pyctakes/types.py),                                 *)
(*   - Annotator.process with its hooks, process_text and batch_process,   *)
(*   - the concept matcher (pyctakes/annotators/umls.py) and the entity,   *)
(*     assertion and concept stages run one after another on a text.       *)
(* Each part has its own specification over the shared variables.          *)
(***************************************************************************)
EXTENDS Integers, Sequences, FiniteSets, TLC

(***************************************************************************)
(* Bounds                                                                  *)
(***************************************************************************)
\* longest stage list the pipeline is given
MaxStages == 3

\* how often one stage's initialize() may raise
MaxInitRaises == 1

VARIABLES
    annotators,            \* Pipeline.annotators: sequence of stage objects
    pipeline_initialized,  \* Pipeline._is_initialized
    is_initialized,        \* Annotator._is_initialized, per stage object
    fail_on_error,         \* Pipeline.config.get("fail_on_error", False)
    initCalls,             \* history: invocations of initialize(), per stage
    initReturns,           \* history: initialize() calls that returned, per stage
    earlyAnnotate,         \* history: stages annotated before any initialize() of theirs returned
    last,                  \* the last call on the pipeline and everything it did
    candidates,            \* the candidate list as the caller built it
    entities,              \* the list object handed to _resolve_overlaps (sorted in place)
    resolved,              \* what _resolve_overlaps returned
    rpc,                   \* "input" before the resolver ran, "done" after
    max_scope,             \* NegationAssertionAnnotator.max_scope, from the configuration
    entity_word_indices,   \* _determine_assertion's first argument
    cue_matches,           \* _determine_assertion's second argument
    applicable_cues,       \* _determine_assertion's applicable_cues list when it returned
    assertion,             \* what _determine_assertion returned
    apc,                   \* "input" before the engine ran, "done" after
    text,                  \* Document.text, a sequence of characters
    doc_annotations,       \* Document.annotations when the stage is called
    produced,              \* what the stage's annotate() returned
    tpc,                   \* "input" before the stage ran, then the stage that ran
    stage,                 \* one Annotator object: its hooks and _is_initialized
    sdoc,                  \* the Document the caller handed to stage.process
    scall,                 \* the last stage.process call and everything it did
    broken,                \* the stage objects whose initialize() raises as configured
    remembered,            \* one earlier ProcessingResult of the pipeline, if any
    returned               \* the last process_text or batch_process call and its results

pvars == <<annotators, pipeline_initialized, is_initialized, fail_on_error,
           initCalls, initReturns, earlyAnnotate, last>>

rvars == <<candidates, entities, resolved, rpc>>

avars == <<max_scope, entity_word_indices, cue_matches, applicable_cues, assertion, apc>>

tvars == <<text, doc_annotations, produced, tpc>>

\* the variables of the text-level stages and of the data model
hvars == <<stage, sdoc, scall>>

bvars == <<broken, remembered, returned>>

evars == <<tvars, hvars, bvars>>

vars == <<pvars, rvars, avars, evars>>

(***************************************************************************)
(* Stage objects.  A stage's name is its class name (base.py:15), so two   *)
(* objects of one class share a name.                                      *)
(***************************************************************************)
Stages == {1, 2}

StageName(s) == IF s % 2 = 1 THEN "ClinicalNERAnnotator" ELSE "ClinicalTokenizer"

\* str(e) of the exception a stage's initialize() raises
InitMessage == "bad option"

\* str(e) of the exception a stage's annotate() raises
AnnotateMessage == "bad input"

\* What annotate() of stage s returns for a document holding doc: the stage
\* reads the document and returns new annotations; it appends nothing itself.
AnnotateOut(s, doc) ==
    IF s % 2 = 1
    THEN << [by |-> s, n |-> Len(doc) + 1] >>
    ELSE << [by |-> s, n |-> Len(doc) + 1], [by |-> s, n |-> Len(doc) + 2] >>

\* annotations a caller's Document may already hold when it is handed over
PriorAnnotations == { <<>>, << [by |-> 0, n |-> 1] >> }

NoException == [type |-> "none", msg |-> <<>>]

FormatError_NoPrefix(name, msg) == << name, ": ", msg >>

\* f"Error in {annotator.name}: {str(e)}", as the sequence of its pieces
FormatError(name, msg) == << "Error in ", name, ": ", msg >>

Event(phase, pos, s, call, ok, out) ==
    [phase |-> phase, pos |-> pos, stage |-> s, call |-> call, ok |-> ok, out |-> out]

NoCall(op) ==
    [op |-> op, before |-> <<>>, document |-> <<>>, errors |-> <<>>,
     outcome |-> "returned", exc |-> NoException, trace |-> <<>>]

(***************************************************************************)
(* The state a call works on.                                              *)
(***************************************************************************)
CallState(doc) ==
    [doc |-> doc, errors |-> <<>>, isInit |-> is_initialized, pipeInit |-> pipeline_initialized,
     calls |-> initCalls, returns |-> initReturns,
     early |-> earlyAnnotate, trace |-> <<>>, exc |-> NoException]

\* stage s's initialize() is invoked and returns
InitializeReturns(st, phase, pos, s) ==
    [st EXCEPT !.calls[s] = @ + 1, !.returns[s] = @ + 1,
               !.trace = Append(@, Event(phase, pos, s, "initialize", TRUE, <<>>))]

\* stage s's initialize() is invoked and raises
InitializeRaises(st, phase, pos, s) ==
    [st EXCEPT !.calls[s] = @ + 1,
               !.trace = Append(@, Event(phase, pos, s, "initialize", FALSE, <<>>))]

\* `if not annotator._is_initialized` / `if not self._is_initialized`
NeedsInitialize_Always(st, s) == TRUE

NeedsInitialize(st, s) == ~st.isInit[s]

\* whether the environment lets initialize() of s raise once more
MayRaiseInit(st, s) == st.calls[s] < MaxInitRaises

(***************************************************************************)
(* Pipeline.initialize: the set of states it can end in, from position i.  *)
(* A raising initialize() propagates: the flags of the stage and of the    *)
(* pipeline stay unset.                                                    *)
(***************************************************************************)
RECURSIVE PipelineInitializeFrom(_, _)
PipelineInitializeFrom(i, st) ==
    IF i > Len(annotators)
    THEN { [st EXCEPT !.pipeInit = TRUE] }
    ELSE LET s == annotators[i] IN
         IF ~NeedsInitialize(st, s)
         THEN PipelineInitializeFrom(i + 1, st)
         ELSE PipelineInitializeFrom(i + 1,
                  [InitializeReturns(st, "eager", i, s) EXCEPT !.isInit[s] = TRUE])
              \cup
              ( IF MayRaiseInit(st, s)
                THEN { [InitializeRaises(st, "eager", i, s)
                           EXCEPT !.exc = [type |-> "stage", msg |-> InitMessage]] }
                ELSE {} )

(***************************************************************************)
(* Annotator.process(document) of the stage at position i: the set of      *)
(* [st, raised, msg, out] it can end in.                                   *)
(***************************************************************************)
AnnotatorProcess(i, st) ==
    LET s == annotators[i]
        Body(st1) ==
            LET st2 == [st1 EXCEPT !.early = IF st1.returns[s] = 0 THEN @ \cup {s} ELSE @]
                out == AnnotateOut(s, st1.doc)
            IN { [st |-> [st2 EXCEPT !.trace = Append(@, Event("loop", i, s, "annotate", TRUE, out))],
                  raised |-> FALSE, msg |-> "", out |-> out],
                 [st |-> [st2 EXCEPT !.trace = Append(@, Event("loop", i, s, "annotate", FALSE, <<>>))],
                  raised |-> TRUE, msg |-> AnnotateMessage, out |-> <<>>] }
    IN IF ~NeedsInitialize(st, s)
       THEN Body(st)
       ELSE Body([InitializeReturns(st, "loop", i, s) EXCEPT !.isInit[s] = TRUE])
            \cup
            ( IF MayRaiseInit(st, s)
              THEN { [st |-> InitializeRaises(st, "loop", i, s),
                      raised |-> TRUE, msg |-> InitMessage, out |-> <<>>] }
              ELSE {} )

(***************************************************************************)
(* The stage loop of Pipeline.process_document from position i.            *)
(***************************************************************************)
HandleStageError_NotRecorded(st, s, msg) ==
    IF fail_on_error
    THEN [st EXCEPT !.exc = [type |-> "RuntimeError", msg |-> FormatError(StageName(s), msg)]]
    ELSE st

HandleStageError_NeverFatal(st, s, msg) ==
    [st EXCEPT !.errors = Append(@, FormatError(StageName(s), msg))]

\* what the except clause does with the exception of stage s
HandleStageError(st, s, msg) ==
    LET error_msg == FormatError(StageName(s), msg)
        st1 == [st EXCEPT !.errors = Append(@, error_msg)]
    IN IF fail_on_error
       THEN [st1 EXCEPT !.exc = [type |-> "RuntimeError", msg |-> error_msg]]
       ELSE st1

ExtendDocument_Replace(doc, out) == out

\* document.annotations.extend(annotations)
ExtendDocument(doc, out) == doc \o out

RECURSIVE StageLoopFrom(_, _)
StageLoopFrom(i, st) ==
    IF i > Len(annotators) \/ st.exc # NoException
    THEN { st }
    ELSE UNION { StageLoopFrom(i + 1,
                     IF r.raised
                     THEN HandleStageError(r.st, annotators[i], r.msg)
                     ELSE [r.st EXCEPT !.doc = ExtendDocument(@, r.out)])
                 : r \in AnnotatorProcess(i, st) }

\* Pipeline.process_document(document): every state the call can end in
ProcessDocumentOutcomes(doc) ==
    LET st0 == CallState(doc)
        afterInit == IF st0.pipeInit THEN { st0 } ELSE PipelineInitializeFrom(1, st0)
    IN UNION { IF st.exc # NoException THEN { st } ELSE StageLoopFrom(1, st)
               : st \in afterInit }

(***************************************************************************)
(* Actions                                                                 *)
(***************************************************************************)
Commit(st, op, before) ==
    /\ is_initialized' = st.isInit
    /\ pipeline_initialized' = st.pipeInit
    /\ initCalls' = st.calls
    /\ initReturns' = st.returns
    /\ earlyAnnotate' = st.early
    /\ last' = [op |-> op, before |-> before, document |-> st.doc, errors |-> st.errors,
                outcome |-> IF st.exc = NoException THEN "returned" ELSE "raised",
                exc |-> st.exc, trace |-> st.trace]

\* Pipeline.add_annotator(annotator)
AddAnnotator(s) ==
    /\ Len(annotators) < MaxStages
    /\ annotators' = Append(annotators, s)
    /\ last' = NoCall("add_annotator")
    /\ UNCHANGED <<pipeline_initialized, is_initialized, fail_on_error,
                   initCalls, initReturns, earlyAnnotate, rvars, avars, evars>>

RemoveAnnotator_FirstOnly(name) ==
    /\ annotators' =
           LET named == { i \in 1..Len(annotators) : StageName(annotators[i]) = name } IN
           IF named = {} THEN annotators
           ELSE LET first == CHOOSE i \in named : \A j \in named : i <= j
                IN SubSeq(annotators, 1, first - 1)
                   \o SubSeq(annotators, first + 1, Len(annotators))
    /\ last' = NoCall("remove_annotator")
    /\ UNCHANGED <<pipeline_initialized, is_initialized, fail_on_error,
                   initCalls, initReturns, earlyAnnotate, rvars, avars, evars>>

\* Pipeline.remove_annotator(annotator_name)
RemoveAnnotator(name) ==
    /\ annotators' = SelectSeq(annotators, LAMBDA ann : StageName(ann) # name)
    /\ last' = NoCall("remove_annotator")
    /\ UNCHANGED <<pipeline_initialized, is_initialized, fail_on_error,
                   initCalls, initReturns, earlyAnnotate, rvars, avars, evars>>

\* Pipeline.initialize()
PipelineInitialize ==
    /\ \E st \in PipelineInitializeFrom(1, CallState(<<>>)) : Commit(st, "initialize", <<>>)
    /\ UNCHANGED <<annotators, fail_on_error, rvars, avars, evars>>

\* Pipeline.process_document(document)
ProcessDocument(doc) ==
    /\ \E st \in ProcessDocumentOutcomes(doc) : Commit(st, "process_document", doc)
    /\ UNCHANGED <<annotators, fail_on_error, rvars, avars, evars>>

PipelineInit ==
    /\ annotators = <<>>
    /\ pipeline_initialized = FALSE
    /\ is_initialized = [s \in Stages |-> FALSE]
    /\ fail_on_error \in BOOLEAN
    /\ initCalls = [s \in Stages |-> 0]
    /\ initReturns = [s \in Stages |-> 0]
    /\ earlyAnnotate = {}
    /\ last = NoCall("construct")

ResolverIdle ==
    /\ candidates = <<>>
    /\ entities = <<>>
    /\ resolved = <<>>
    /\ rpc = "off"

AssertionIdle ==
    /\ max_scope = 10
    /\ entity_word_indices = {}
    /\ cue_matches = <<>>
    /\ applicable_cues = <<>>
    /\ assertion = "none"
    /\ apc = "off"

TextIdle ==
    /\ text = <<>>
    /\ doc_annotations = <<>>
    /\ produced = <<>>
    /\ tpc = "off"

\* the text-level stages and the data model are not in use
StageIdle ==
    /\ stage = "off"
    /\ sdoc = "off"
    /\ scall = "off"

BatchIdle ==
    /\ broken = {}
    /\ remembered = <<>>
    /\ returned = "off"

EvarsIdle == TextIdle /\ StageIdle /\ BatchIdle

Init == PipelineInit /\ ResolverIdle /\ AssertionIdle /\ EvarsIdle

Next ==
    \/ \E s \in Stages : AddAnnotator(s)
    \/ \E name \in { StageName(s) : s \in Stages } : RemoveAnnotator(name)
    \/ PipelineInitialize
    \/ \E doc \in PriorAnnotations : ProcessDocument(doc)

Spec == Init /\ [][Next]_vars

(***************************************************************************)
(* Properties of the pipeline orchestrator                                 *)
(***************************************************************************)
RECURSIVE Flatten(_)
Flatten(seqs) == IF seqs = <<>> THEN <<>> ELSE Head(seqs) \o Flatten(Tail(seqs))

IsProcessDocument == last.op = "process_document"

\* what the stages did inside the stage loop of the last call
LoopEvents == SelectSeq(last.trace, LAMBDA e : e.phase = "loop")

\* the events that end a stage's process(): annotate() was reached, or initialize() raised
StageEnds == SelectSeq(LoopEvents, LAMBDA e : e.call = "annotate" \/ ~e.ok)

\* the stages whose process() raised, in the order they ran
StageRaises == SelectSeq(LoopEvents, LAMBDA e : ~e.ok)

\* the pipeline's first-use initialization raised before the stage loop
EagerInitRaised == \E j \in 1..Len(last.trace) : last.trace[j].phase = "eager" /\ ~last.trace[j].ok

\* some initialize() raised while the last call ran
SomeInitRaised == \E j \in 1..Len(last.trace) : last.trace[j].call = "initialize" /\ ~last.trace[j].ok

EventMessage(e) == IF e.call = "initialize" THEN InitMessage ELSE AnnotateMessage

Mentions(entry, name) == \E j \in 1..Len(entry) : entry[j] = name

C2_FailFast ==
    (IsProcessDocument /\ fail_on_error /\ Len(StageRaises) >= 1) =>
        /\ last.outcome = "raised"
        /\ last.exc.type = "RuntimeError"
        /\ Len(StageRaises) = 1
        /\ \A j \in 1..Len(LoopEvents) : LoopEvents[j].pos <= StageRaises[1].pos

\* the first of several stages raised under fail_on_error
C2_Witness ==
    /\ IsProcessDocument /\ fail_on_error
    /\ Len(annotators) >= 2
    /\ Len(StageRaises) >= 1
    /\ StageRaises[1].pos < Len(annotators)

\* C3: after process_document the document holds the annotations it held
\* before, in the same order, followed by the outputs of the stages whose
\* process() returned, in pipeline order; a raising stage contributes nothing.
C3_AppendOnly ==
    IsProcessDocument =>
        last.document =
            last.before \o
            Flatten([j \in 1..Len(LoopEvents) |->
                        IF LoopEvents[j].call = "annotate" /\ LoopEvents[j].ok
                        THEN LoopEvents[j].out ELSE <<>>])

\* a document with prior annotations went through a stage that returned, one
\* that raised and one that returned again
C3_Witness ==
    /\ IsProcessDocument
    /\ last.before # <<>>
    /\ \E i, j, k \in 1..Len(LoopEvents) :
           /\ i < j /\ j < k
           /\ LoopEvents[i].ok /\ LoopEvents[i].call = "annotate"
           /\ ~LoopEvents[j].ok
           /\ LoopEvents[k].ok /\ LoopEvents[k].call = "annotate"

\* C4 (as stated): the entry recorded for a failed stage is exactly
\* "<stage-name>: <message>", with nothing before the stage name.
C4_EntryIsNameColonMessage ==
    IsProcessDocument =>
        /\ Len(last.errors) = Len(StageRaises)
        /\ \A j \in 1..Len(StageRaises) :
               last.errors[j] =
                   << StageName(StageRaises[j].stage), ": ", EventMessage(StageRaises[j]) >>

\* C4 (amended): the entry recorded for a failed stage is exactly
\* "Error in <stage-name>: <message>".
C4_EntryIsErrorInNameColonMessage ==
    IsProcessDocument =>
        /\ Len(last.errors) = Len(StageRaises)
        /\ \A j \in 1..Len(StageRaises) :
               last.errors[j] =
                   << "Error in ", StageName(StageRaises[j].stage), ": ",
                      EventMessage(StageRaises[j]) >>

\* a result came back with an entry for a stage that raised
C4_Witness ==
    /\ IsProcessDocument /\ last.outcome = "returned"
    /\ Len(last.errors) >= 1
    /\ \E j \in 1..Len(StageRaises) : StageRaises[j].call = "annotate"

\* C5 (as stated): over any sequence of calls each stage's initialize() is
\* invoked at most once, and before the stage's first annotate().
C5_InitializeInvokedAtMostOnce ==
    /\ \A s \in Stages : initCalls[s] <= 1
    /\ earlyAnnotate = {}

\* C5 (amended): each stage's initialize() returns at most once and is never
\* invoked again after it has returned (a call that raised leaves the stage
\* uninitialized and is repeated on the next use), and an initialize() of the
\* stage has returned before its first annotate().
C5_InitializeReturnsAtMostOnce ==
    [][ /\ \A s \in Stages :
              /\ initReturns'[s] <= 1
              /\ (initReturns[s] >= 1 => initCalls'[s] = initCalls[s])
        /\ earlyAnnotate' = {} ]_vars

\* a stage whose first initialize() raised was initialized by a second call
\* and then annotated
C5_Witness ==
    \E s \in Stages :
        /\ initCalls[s] = 2 /\ initReturns[s] = 1
        /\ \E j \in 1..Len(last.trace) :
               last.trace[j].stage = s /\ last.trace[j].call = "annotate"

\* C6: an exception raised by a stage's initialize() while process_document
\* runs is surfaced to the caller (the call raises), never turned into an
\* entry of a returned result's errors list.
C6_InitErrorsSurface ==
    (IsProcessDocument /\ SomeInitRaised) => last.outcome = "raised"

(***************************************************************************)
(* The entity overlap resolver, ClinicalNERAnnotator._resolve_overlaps     *)
(***************************************************************************)
\* longest candidate list handed to the resolver
MaxCandidates == 3

\* character offsets candidates start and end at
Offsets == {0, 2, 8, 10}

\* confidences in hundredths: 0.7 and 0.9
Confidences == {70, 90}

\* a candidate NamedEntityAnnotation: its span and its confidence
Candidates ==
    { c \in [start : Offsets, end : Offsets, confidence : Confidences] : c.start <= c.end }

CandidateLists == UNION { [1..n -> Candidates] : n \in 0..MaxCandidates }

SpanOverlaps_SameStart(a, b) == a.start = b.start

\* Span.overlaps
SpanOverlaps(a, b) == a.start < b.end /\ a.end > b.start

KeyBefore_StartOnly(a, b) == a.start < b.start

\* key=lambda x: (x.start, -x.confidence), compared as Python compares tuples
KeyBefore(a, b) ==
    \/ a.start < b.start
    \/ a.start = b.start /\ (0 - a.confidence) < (0 - b.confidence)

\* list.sort is stable: an element goes after the elements whose key is not greater
RECURSIVE InsertByKey(_, _)
InsertByKey(e, sorted) ==
    IF sorted = <<>> THEN << e >>
    ELSE IF KeyBefore(e, Head(sorted)) THEN << e >> \o sorted
    ELSE << Head(sorted) >> \o InsertByKey(e, Tail(sorted))

RECURSIVE SortEntities(_)
SortEntities(list) ==
    IF list = <<>> THEN <<>>
    ELSE InsertByKey(list[Len(list)], SortEntities(SubSeq(list, 1, Len(list) - 1)))

Accepts_LastOnly(entity, non_overlapping) ==
    \/ non_overlapping = <<>>
    \/ ~SpanOverlaps(entity, non_overlapping[Len(non_overlapping)])

\* the inner loop: the entity overlaps none of the already selected ones
Accepts(entity, non_overlapping) ==
    ~\E j \in 1..Len(non_overlapping) : SpanOverlaps(entity, non_overlapping[j])

RECURSIVE GreedyScan(_, _)
GreedyScan(sorted, non_overlapping) ==
    IF sorted = <<>> THEN non_overlapping
    ELSE GreedyScan(Tail(sorted),
                    IF Accepts(Head(sorted), non_overlapping)
                    THEN Append(non_overlapping, Head(sorted))
                    ELSE non_overlapping)

\* _resolve_overlaps(entities)
ResolveOverlaps(list) ==
    IF list = <<>> THEN list ELSE GreedyScan(SortEntities(list), <<>>)

\* annotate() calls the resolver on the list it collected
Resolve ==
    /\ rpc = "input"
    /\ entities' = SortEntities(entities)
    /\ resolved' = ResolveOverlaps(entities)
    /\ rpc' = "done"
    /\ UNCHANGED <<candidates, pvars, avars, evars>>

ResolverInit ==
    /\ PipelineInit /\ ~fail_on_error
    /\ AssertionIdle /\ EvarsIdle
    /\ candidates \in CandidateLists
    /\ entities = candidates
    /\ resolved = <<>>
    /\ rpc = "input"

ResolverNext == Resolve

SpecResolver == ResolverInit /\ [][ResolverNext]_vars

(***************************************************************************)
(* Properties of the overlap resolver                                      *)
(***************************************************************************)
Range(seq) == { seq[j] : j \in 1..Len(seq) }

\* every ordering of a list
Orderings(list) ==
    { [j \in 1..Len(list) |-> list[f[j]]] :
        f \in { g \in [1..Len(list) -> 1..Len(list)] :
                    \A x, y \in 1..Len(list) : x # y => g[x] # g[y] } }

\* C7: no two distinct annotations of the resolver's output overlap under
\* the strict rule a.start < b.end and a.end > b.start.
C7_OutputNonOverlapping ==
    rpc = "done" =>
        \A i, j \in 1..Len(resolved) :
            i # j => ~(resolved[i].start < resolved[j].end /\ resolved[i].end > resolved[j].start)

\* three candidates went in, one overlapped an accepted one and was dropped
C7_Witness ==
    /\ rpc = "done"
    /\ Len(candidates) = 3
    /\ Len(resolved) = 2

\* C8: the resolver accepts the same candidates for every permutation of a
\* candidate list, also when overlapping candidates tie on start and confidence.
C8_OrderIndependent ==
    rpc = "done" =>
        \A other \in Orderings(candidates) :
            Range(ResolveOverlaps(other)) = Range(resolved)

\* C9: for the candidates [0,8) with confidence 0.7 and [2,10) with
\* confidence 0.9 the output is exactly the candidate [2,10).
C9_HigherConfidenceLaterStartWins ==
    ( /\ rpc = "done"
      /\ Len(candidates) = 2
      /\ Range(candidates) = { [start |-> 0, end |-> 8, confidence |-> 70],
                               [start |-> 2, end |-> 10, confidence |-> 90] } )
    => resolved = << [start |-> 2, end |-> 10, confidence |-> 90] >>

(***************************************************************************)
(* The assertion engine, NegationAssertionAnnotator._determine_assertion   *)
(***************************************************************************)
\* largest word index of the document
MaxWord == 4

\* most cue occurrences found in one document
MaxCueMatches == 2

Words == 0..MaxWord

Cue(literal, nwords, category, direction, max_distance) ==
    [literal |-> literal, nwords |-> nwords, category |-> category,
     direction |-> direction, max_distance |-> max_distance]

\* self.context_cues: default cues of every category and direction, followed
\* by the custom cues of the configuration
ContextCues ==
    { Cue("denies", 1, "negation", "forward", 6),
      Cue("is negative", 2, "negation", "backward", 3),
      Cue("possible", 1, "uncertainty", "forward", 5),
      Cue("family history", 2, "family_history", "forward", 8),
      Cue("history of", 2, "historical", "forward", 6),
      Cue("if", 1, "hypothetical", "forward", 5),
      Cue("provided", 1, "conditional", "bidirectional", 10),
      Cue("excluding", 1, "negation", "bidirectional", 1),
      Cue("nil", 1, "negation", "forward", 2),
      Cue("excluded", 1, "negation", "backward", 2) }

\* an entry of the list _find_context_cues returns
CueMatches ==
    { [cue |-> c, start_word |-> w, end_word |-> w + c.nwords - 1] :
          c \in ContextCues, w \in Words }
    \cap [cue : ContextCues, start_word : Words, end_word : Words]

\* _find_context_cues scans the words in order, so its list ascends in start_word
CueMatchLists ==
    { l \in UNION { [1..n -> CueMatches] : n \in 0..MaxCueMatches } :
          \A j \in 1..(Len(l) - 1) : l[j].start_word <= l[j + 1].start_word }

\* _find_entity_word_indices: the words an entity's span overlaps (none, one or two)
EntityWordIndexSets ==
    { {} } \cup { {w} : w \in Words } \cup { {w, w + 1} : w \in 0..(MaxWord - 1) }

Min(S) == CHOOSE x \in S : \A y \in S : x <= y

Max(S) == CHOOSE x \in S : \A y \in S : x >= y

\* float('inf')
Infinity == 1000000

\* the distance the loop body computes for one cue match
CueDistance(m, entity_start, entity_end) ==
    IF m.cue.direction = "forward"
    THEN IF m.end_word < entity_start THEN entity_start - m.end_word ELSE Infinity
    ELSE IF m.cue.direction = "backward"
    THEN IF m.start_word > entity_end THEN m.start_word - entity_end ELSE Infinity
    ELSE IF m.end_word < entity_start THEN entity_start - m.end_word
    ELSE IF m.start_word > entity_end THEN m.start_word - entity_end
    ELSE 0

CueApplies_StrictlyWithin(m, entity_start, entity_end) ==
    CueDistance(m, entity_start, entity_end) < m.cue.max_distance

\* the value of `applies` at the end of the loop body
CueApplies(m, entity_start, entity_end) ==
    IF m.cue.direction = "forward"
    THEN m.end_word < entity_start
         /\ CueDistance(m, entity_start, entity_end) <= m.cue.max_distance
    ELSE IF m.cue.direction = "backward"
    THEN m.start_word > entity_end
         /\ CueDistance(m, entity_start, entity_end) <= m.cue.max_distance
    ELSE CueDistance(m, entity_start, entity_end) <= m.cue.max_distance

\* applicable_cues: (cue, distance) pairs in the order of cue_matches
RECURSIVE ApplicableCues(_, _, _)
ApplicableCues(matches, entity_start, entity_end) ==
    IF matches = <<>> THEN <<>>
    ELSE LET m == Head(matches)
             rest == ApplicableCues(Tail(matches), entity_start, entity_end)
         IN IF CueApplies(m, entity_start, entity_end)
            THEN << [cue |-> m.cue, distance |-> CueDistance(m, entity_start, entity_end)] >> \o rest
            ELSE rest

RECURSIVE InsertByDistance(_, _)
InsertByDistance(e, sorted) ==
    IF sorted = <<>> THEN << e >>
    ELSE IF e.distance < Head(sorted).distance THEN << e >> \o sorted
    ELSE << Head(sorted) >> \o InsertByDistance(e, Tail(sorted))

SortByDistance_Unsorted(applicable) == applicable

\* applicable_cues.sort(key=lambda x: x[1]), a stable sort
RECURSIVE SortByDistance(_)
SortByDistance(applicable) ==
    IF applicable = <<>> THEN <<>>
    ELSE InsertByDistance(applicable[Len(applicable)],
                          SortByDistance(SubSeq(applicable, 1, Len(applicable) - 1)))

CategoryAssertion_Conditional(category) ==
    IF category = "negation" THEN "ABSENT"
    ELSE IF category = "uncertainty" THEN "POSSIBLE"
    ELSE IF category = "family_history" THEN "FAMILY_HISTORY"
    ELSE IF category = "historical" THEN "HISTORICAL"
    ELSE IF category = "hypothetical" THEN "HYPOTHETICAL"
    ELSE IF category = "conditional" THEN "CONDITIONAL"
    ELSE ""

\* the if/elif chain over cue.category; "" when no branch returns
CategoryAssertion(category) ==
    IF category = "negation" THEN "ABSENT"
    ELSE IF category = "uncertainty" THEN "POSSIBLE"
    ELSE IF category = "family_history" THEN "FAMILY_HISTORY"
    ELSE IF category = "historical" THEN "HISTORICAL"
    ELSE IF category = "hypothetical" THEN "HYPOTHETICAL"
    ELSE ""

\* the final loop: the first cue whose category has a branch decides
RECURSIVE FirstDecisive(_)
FirstDecisive(sorted) ==
    IF sorted = <<>> THEN "PRESENT"
    ELSE IF CategoryAssertion(Head(sorted).cue.category) # ""
    THEN CategoryAssertion(Head(sorted).cue.category)
    ELSE FirstDecisive(Tail(sorted))

\* applicable_cues after the sort; the list is never built when the entity
\* overlaps no word
SortedApplicableCues(indices, matches) ==
    IF indices = {} THEN <<>>
    ELSE SortByDistance(ApplicableCues(matches, Min(indices), Max(indices)))

\* self.get_config("max_scope", 10): the default and a configured scope
MaxScopes == {10, 2}

\* _determine_assertion(entity_word_indices, cue_matches, words)
DetermineAssertion(indices, matches) ==
    IF indices = {} THEN "PRESENT"
    ELSE FirstDecisive(SortedApplicableCues(indices, matches))

\* annotate() asks for the assertion of one entity
Determine ==
    /\ apc = "input"
    /\ applicable_cues' = SortedApplicableCues(entity_word_indices, cue_matches)
    /\ assertion' = DetermineAssertion(entity_word_indices, cue_matches)
    /\ apc' = "done"
    /\ UNCHANGED <<max_scope, entity_word_indices, cue_matches, pvars, rvars, evars>>

AssertionInit ==
    /\ PipelineInit /\ ~fail_on_error
    /\ ResolverIdle /\ EvarsIdle
    /\ max_scope \in MaxScopes
    /\ entity_word_indices \in EntityWordIndexSets
    /\ cue_matches \in CueMatchLists
    /\ applicable_cues = <<>>
    /\ assertion = "none"
    /\ apc = "input"

AssertionNext == Determine

SpecAssertion == AssertionInit /\ [][AssertionNext]_vars

(***************************************************************************)
(* Properties of the assertion engine                                      *)
(***************************************************************************)
\* the first and last word of the entity
EntityFirst == Min(entity_word_indices)

EntityLast == Max(entity_word_indices)

\* word distance between a cue occurrence and the entity on the side the
\* cue's direction allows; -1 when the direction rules the cue out
WordDistance(m) ==
    LET before == m.end_word < EntityFirst
        after == m.start_word > EntityLast
    IN CASE m.cue.direction = "forward" -> IF before THEN EntityFirst - m.end_word ELSE 0 - 1
         [] m.cue.direction = "backward" -> IF after THEN m.start_word - EntityLast ELSE 0 - 1
         [] OTHER -> IF before THEN EntityFirst - m.end_word
                     ELSE IF after THEN m.start_word - EntityLast ELSE 0

\* positions of cue_matches whose cue applies to the entity
ApplicablePositions ==
    IF entity_word_indices = {} THEN {}
    ELSE { j \in 1..Len(cue_matches) :
             /\ WordDistance(cue_matches[j]) >= 0
             /\ WordDistance(cue_matches[j]) <= cue_matches[j].cue.max_distance }

RecognisedCategories ==
    {"negation", "uncertainty", "family_history", "historical", "hypothetical"}

AssertionOf(category) ==
    CASE category = "negation" -> "ABSENT"
      [] category = "uncertainty" -> "POSSIBLE"
      [] category = "family_history" -> "FAMILY_HISTORY"
      [] category = "historical" -> "HISTORICAL"
      [] category = "hypothetical" -> "HYPOTHETICAL"
      [] OTHER -> "unmapped"

\* the positions among P whose cue is nearest to the entity
Nearest(P) ==
    { j \in P : \A k \in P : WordDistance(cue_matches[j]) <= WordDistance(cue_matches[k]) }

RecognisedApplicablePositions ==
    { j \in ApplicablePositions : cue_matches[j].cue.category \in RecognisedCategories }

\* C10 (as stated): the engine returns the assertion mapped from the category
\* of an applicable cue with the smallest word distance, for any cue set
\* including custom cues, and PRESENT when no cue applies or the entity
\* overlaps no word.
C10_NearestApplicableCueDecides ==
    apc = "done" =>
        IF ApplicablePositions = {}
        THEN assertion = "PRESENT"
        ELSE \E j \in Nearest(ApplicablePositions) :
                 assertion = AssertionOf(cue_matches[j].cue.category)

\* C10 (amended): the engine returns the assertion mapped from the category
\* of a nearest cue among the applicable cues whose category is one of
\* negation, uncertainty, family_history, historical, hypothetical, and
\* PRESENT when no such cue applies or the entity overlaps no word.
C10_NearestRecognisedCueDecides ==
    apc = "done" =>
        IF RecognisedApplicablePositions = {}
        THEN assertion = "PRESENT"
        ELSE \E j \in Nearest(RecognisedApplicablePositions) :
                 assertion = AssertionOf(cue_matches[j].cue.category)

\* "denies" two words and "possible" one word before the entity: POSSIBLE
C10_Witness ==
    /\ apc = "done"
    /\ entity_word_indices = {3, 4}
    /\ cue_matches =
          << [cue |-> Cue("denies", 1, "negation", "forward", 6), start_word |-> 1, end_word |-> 1],
             [cue |-> Cue("possible", 1, "uncertainty", "forward", 5), start_word |-> 2, end_word |-> 2] >>
    /\ assertion = "POSSIBLE"

(***************************************************************************)
(* The assertion stage on a document text (pytakes/annotators/             *)
(* assertion.py): tokenisation, cue discovery and the entity's words feed  *)
(* DetermineAssertion.  A text is a sequence of characters.                *)
(***************************************************************************)
\* longest generated text, counted in pieces
MaxPieces == 3

\* the strings of the texts and of the cue literals, character by character
Spell ==
    [ patient |-> <<"p", "a", "t", "i", "e", "n", "t">>,
      denies |-> <<"d", "e", "n", "i", "e", "s">>,
      chest |-> <<"c", "h", "e", "s", "t">>,
      pain |-> <<"p", "a", "i", "n">>,
      family |-> <<"f", "a", "m", "i", "l", "y">>,
      history |-> <<"h", "i", "s", "t", "o", "r", "y">>,
      of |-> <<"o", "f">>,
      diabetes |-> <<"d", "i", "a", "b", "e", "t", "e", "s">>,
      in |-> <<"i", "n">>,
      mother |-> <<"m", "o", "t", "h", "e", "r">>,
      Patient |-> <<"P", "a", "t", "i", "e", "n", "t">>,
      Family |-> <<"F", "a", "m", "i", "l", "y">>,
      chest_pain |-> <<"c", "h", "e", "s", "t", " ", "p", "a", "i", "n">>,
      physical |-> <<"p", "h", "y", "s", "i", "c", "a", "l">>,
      exam |-> <<"e", "x", "a", "m">>,
      mg |-> <<"m", "g">>,
      mellitus |-> <<"m", "e", "l", "l", "i", "t", "u", "s">>,
      dm |-> <<"d", "m">>,
      discomfort |-> <<"d", "i", "s", "c", "o", "m", "f", "o", "r", "t">>,
      Chest |-> <<"C", "h", "e", "s", "t">>,
      Chest_Pain |-> <<"C", "h", "e", "s", "t", " ", "P", "a", "i", "n">>,
      Diabetes_Mellitus |-> <<"D", "i", "a", "b", "e", "t", "e", "s", " ",
                              "M", "e", "l", "l", "i", "t", "u", "s">>,
      h_o |-> <<"h", "/", "o">> ]

Space == <<" ">>

Period == <<".">>

\* str.lower() on the characters the texts use
Lower(c) ==
    IF c = "P" THEN "p" ELSE IF c = "F" THEN "f" ELSE IF c = "C" THEN "c"
    ELSE IF c = "D" THEN "d" ELSE IF c = "M" THEN "m" ELSE c

LowerText(t) == [i \in 1..Len(t) |-> Lower(t[i])]

\* the characters \w matches
WordChars ==
    { "a", "b", "c", "d", "e", "f", "g", "h", "i", "l", "m", "n", "o", "p",
      "r", "s", "t", "u", "x", "y", "C", "D", "F", "M", "P" }

\* one entry of (words, positions): the token, its start and its end offset
Token(t, start, end) ==
    [word |-> SubSeq(t, start + 1, end), start |-> start, end |-> end]

\* re.finditer(r'\b\w+\b', t): the maximal runs of word characters, left to
\* right; start is the offset where the current run began, -1 outside a run
RECURSIVE WordRuns(_, _, _)
WordRuns(t, i, start) ==
    IF i > Len(t)
    THEN IF start >= 0 THEN << Token(t, start, Len(t)) >> ELSE <<>>
    ELSE IF t[i] \in WordChars
    THEN WordRuns(t, i + 1, IF start >= 0 THEN start ELSE i - 1)
    ELSE (IF start >= 0 THEN << Token(t, start, i - 1) >> ELSE <<>>)
         \o WordRuns(t, i + 1, -1)

TokenizeWithPositions_NoLower(t) == WordRuns(t, 1, -1)

\* _tokenize_with_positions: the tokens of text.lower()
TokenizeWithPositions(t) == WordRuns(LowerText(t), 1, -1)

\* cue.literal.split()
LiteralWords(literal) ==
    CASE literal = "denies" -> << Spell.denies >>
      [] literal = "family history" -> << Spell.family, Spell.history >>
      [] literal = "mother" -> << Spell.mother >>
      [] literal = "family history of" -> << Spell.family, Spell.history, Spell.of >>
      [] literal = "history of" -> << Spell.history, Spell.of >>
      [] literal = "h/o" -> << Spell.h_o >>

\* _load_default_cues, in list order: the default cues made of words the
\* texts below can contain (no other default cue can match them), and the
\* default cue "h/o", whose one part holds a character that is not a word
\* character
LoadDefaultCues ==
    << Cue("denies", 1, "negation", "forward", 6),
       Cue("family history", 2, "family_history", "forward", 8),
       Cue("mother", 1, "family_history", "forward", 8),
       Cue("family history of", 3, "family_history", "forward", 8),
       Cue("history of", 2, "historical", "forward", 6),
       Cue("h/o", 1, "historical", "forward", 6) >>

\* a lookup that holds the one-word cues only
CueLookup_SingleWord(word) ==
    SelectSeq(LoadDefaultCues, LAMBDA c : LiteralWords(c.literal) = << word >>)

\* initialize(): cue_lookup[word], the cues whose first word is word, in list order
CueLookup(word) ==
    SelectSeq(LoadDefaultCues, LAMBDA c : LiteralWords(c.literal)[1] = word)

\* the inner loop of _find_context_cues for the word at position i (from 1)
RECURSIVE MatchesAt(_, _, _)
MatchesAt(tokens, i, cues) ==
    IF cues = <<>> THEN <<>>
    ELSE LET cue_words == LiteralWords(Head(cues).literal)
             match == \/ Len(cue_words) = 1
                      \/ /\ (i - 1) + Len(cue_words) <= Len(tokens)
                         /\ \A j \in 1..Len(cue_words) :
                                tokens[i + j - 1].word = cue_words[j]
         IN (IF match
             THEN << [cue |-> Head(cues), start_word |-> i - 1,
                      end_word |-> (i - 1) + Len(cue_words) - 1] >>
             ELSE <<>>)
            \o MatchesAt(tokens, i, Tail(cues))

RECURSIVE FindContextCuesFrom(_, _)
FindContextCuesFrom(tokens, i) ==
    IF i > Len(tokens) THEN <<>>
    ELSE MatchesAt(tokens, i, CueLookup(tokens[i].word))
         \o FindContextCuesFrom(tokens, i + 1)

\* _find_context_cues
FindContextCues(tokens) == FindContextCuesFrom(tokens, 1)

\* _find_entity_word_indices: the words whose span meets the entity's span
FindEntityWordIndices(entity, tokens) ==
    { i - 1 : i \in { k \in 1..Len(tokens) :
          \/ tokens[k].start >= entity.start /\ tokens[k].start < entity.end
          \/ tokens[k].end > entity.start /\ tokens[k].end <= entity.end
          \/ tokens[k].start <= entity.start /\ tokens[k].end >= entity.end } }

\* Python's None
None == "None"

\* a dict is the set of its <<key, value>> items; {**d, key: value}
DictUpdate(d, key, value) == { item \in d : item[1] # key } \cup { <<key, value>> }

\* d[key]
DictGet(d, key) == (CHOOSE item \in d : item[1] = key)[2]

\* confidences are counted in 1/10000
DefaultConfidence == 8500

\* a NamedEntityAnnotation over [start, end) of the text, as the entity
\* stage builds it
NamedEntity(start, end, chars) ==
    [class |-> "NamedEntityAnnotation", kind |-> "named_entity",
     start |-> start, end |-> end, text |-> chars,
     entity_type |-> "disorder", entity_subtype |-> None,
     confidence |-> DefaultConfidence, metadata |-> {}]

\* AssertionType.value
AssertionValue(a) ==
    CASE a = "PRESENT" -> "present"
      [] a = "ABSENT" -> "absent"
      [] a = "POSSIBLE" -> "possible"
      [] a = "CONDITIONAL" -> "conditional"
      [] a = "HYPOTHETICAL" -> "hypothetical"
      [] a = "FAMILY_HISTORY" -> "family_history"
      [] a = "HISTORICAL" -> "historical"

Discount_None(confidence) == confidence

\* entity.confidence * 0.95
Discount(confidence) == (confidence * 95) \div 100

\* the NamedEntityAnnotation(...) call of annotate(): a new object with the
\* entity's span, text and types, the discounted confidence and a new dict
NewEntity(entity, a) ==
    [class |-> "NamedEntityAnnotation",
     kind |-> entity.kind,
     start |-> entity.start, end |-> entity.end, text |-> entity.text,
     entity_type |-> entity.entity_type, entity_subtype |-> entity.entity_subtype,
     confidence |-> Discount(entity.confidence),
     metadata |-> DictUpdate(DictUpdate(entity.metadata, "assertion", AssertionValue(a)),
                             "context_applied", "True")]

\* annotate(): every named entity of the document, relabelled; an annotation
\* of type NAMED_ENTITY that is no NamedEntityAnnotation is passed on as it is
AssertionAnnotate(t, anns) ==
    LET named == SelectSeq(anns, LAMBDA a : a.kind = "named_entity") IN
    IF named = <<>> THEN <<>>
    ELSE LET tokens == TokenizeWithPositions(t)
             matches == FindContextCues(tokens)
         IN [k \in 1..Len(named) |->
                IF named[k].class = "NamedEntityAnnotation"
                THEN NewEntity(named[k],
                         DetermineAssertion(FindEntityWordIndices(named[k], tokens), matches))
                ELSE named[k]]

\* the pieces the generated texts are put together from
GeneratedPieces ==
    { Spell.denies, Spell.Family, Spell.history, Spell.of, Spell.diabetes,
      Space, Period }

\* "Patient denies chest pain. Family history of diabetes in mother."
ScenarioPieces ==
    << Spell.Patient, Space, Spell.denies, Space, Spell.chest_pain, Period,
       Space, Spell.Family, Space, Spell.history, Space, Spell.of, Space,
       Spell.diabetes, Space, Spell.in, Space, Spell.mother, Period >>

PieceLists ==
    UNION { [1..n -> GeneratedPieces] : n \in 0..MaxPieces } \cup { ScenarioPieces }

\* the terms the entity stage has found in the text
EntityTerms == { Spell.chest_pain, Spell.diabetes }

\* the named entities of a document: one per occurrence of a term
RECURSIVE EntitiesOf(_, _)
EntitiesOf(pieces, offset) ==
    IF pieces = <<>> THEN <<>>
    ELSE (IF Head(pieces) \in EntityTerms
          THEN << NamedEntity(offset, offset + Len(Head(pieces)), Head(pieces)) >>
          ELSE <<>>)
         \o EntitiesOf(Tail(pieces), offset + Len(Head(pieces)))

\* what an annotation of the document can be besides the entity stage's
\* own output: another confidence, type and metadata (also an earlier
\* assertion label), a plain Annotation of type NAMED_ENTITY, a sentence
EntityProfiles ==
    { [class |-> "NamedEntityAnnotation", kind |-> "named_entity",
       entity_type |-> "disorder", entity_subtype |-> None,
       confidence |-> DefaultConfidence, metadata |-> {}],
      [class |-> "NamedEntityAnnotation", kind |-> "named_entity",
       entity_type |-> "sign_symptom", entity_subtype |-> "chronic",
       confidence |-> 10000, metadata |-> { <<"source", "rule">> }],
      [class |-> "NamedEntityAnnotation", kind |-> "named_entity",
       entity_type |-> "disorder", entity_subtype |-> None,
       confidence |-> 8000,
       metadata |-> { <<"assertion", "present">>, <<"context_applied", "True">> }],
      [class |-> "Annotation", kind |-> "named_entity",
       entity_type |-> None, entity_subtype |-> None,
       confidence |-> 10000, metadata |-> {}],
      [class |-> "SentenceAnnotation", kind |-> "sentence",
       entity_type |-> None, entity_subtype |-> None,
       confidence |-> 10000, metadata |-> {}] }

\* the annotation at the place of entity with the fields of profile
WithProfile(entity, profile) ==
    [class |-> profile.class, kind |-> profile.kind,
     start |-> entity.start, end |-> entity.end, text |-> entity.text,
     entity_type |-> profile.entity_type, entity_subtype |-> profile.entity_subtype,
     confidence |-> profile.confidence, metadata |-> profile.metadata]

\* the annotation lists a document can hold over the spans of list
ProfiledLists(list) ==
    { [k \in 1..Len(list) |-> WithProfile(list[k], f[k])] :
          f \in [1..Len(list) -> EntityProfiles] }

\* NegationAssertionAnnotator.annotate(document)
AnnotateAssertions ==
    /\ tpc = "input"
    /\ produced' = AssertionAnnotate(text, doc_annotations)
    /\ tpc' = "assertion"
    /\ UNCHANGED <<text, doc_annotations, pvars, rvars, avars, hvars, bvars>>

ContextInit ==
    /\ PipelineInit /\ ~fail_on_error
    /\ ResolverIdle /\ AssertionIdle /\ StageIdle /\ BatchIdle
    /\ \E pieces \in PieceLists :
          /\ text = Flatten(pieces)
          /\ doc_annotations \in ProfiledLists(EntitiesOf(pieces, 0))
    /\ produced = <<>>
    /\ tpc = "input"

ContextNext == AnnotateAssertions

SpecContext == ContextInit /\ [][ContextNext]_vars

(***************************************************************************)
(* Claims about the assertion stage on a text                              *)
(***************************************************************************)
ScenarioText == Flatten(ScenarioPieces)

\* C11: on "Patient denies chest pain. Family history of diabetes in
\* mother." with the entities "chest pain" and "diabetes" and the default
\* cues, the stage labels "chest pain" ABSENT and "diabetes" FAMILY_HISTORY
C11_ScenarioLabels ==
    ( /\ tpc = "assertion"
      /\ text = ScenarioText
      /\ \A k \in 1..Len(doc_annotations) :
             doc_annotations[k].class = "NamedEntityAnnotation" )
        => /\ Len(produced) = 2
           /\ produced[1].text = Spell.chest_pain
           /\ DictGet(produced[1].metadata, "assertion") = "absent"
           /\ produced[2].text = Spell.diabetes
           /\ DictGet(produced[2].metadata, "assertion") = "family_history"

C11_Witness ==
    /\ tpc = "assertion"
    /\ text = ScenarioText
    /\ doc_annotations = EntitiesOf(ScenarioPieces, 0)
    /\ Len(text) = 64
    /\ [k \in 1..Len(produced) |-> <<produced[k].start, produced[k].end>>]
           = << <<15, 25>>, <<45, 53>> >>
(***************************************************************************)
(* The section detector (pytakes/annotators/sections.py) and the           *)
(* rule-based sentence segmenter (pyctakes/annotators/tokenization.py) on  *)
(* a document text.                                                        *)
(***************************************************************************)
\* longest text handed to the two stages, counted in pieces
MaxSegmentPieces == 4

Colon == <<":">>

\* the characters \s matches and str.strip() removes
Whitespace == { " " }

\* the characters of [.!?]
SentencePunctuation == { ".", "!", "?" }

\* a greedy character class: the first position from i on whose character is
\* not in class (Len(t) + 1 when there is none)
RECURSIVE RunEnd(_, _, _)
RunEnd(t, i, class) ==
    IF i > Len(t) THEN i
    ELSE IF t[i] \in class THEN RunEnd(t, i + 1, class)
    ELSE i

\* t[a:b] as Python slices: negative offsets count from the end, offsets
\* outside the text are clamped
PySlice(t, a, b) ==
    LET n == Len(t)
        lo == IF a < 0 THEN Max({a + n, 0}) ELSE Min({a, n})
        hi == IF b < 0 THEN Max({b + n, 0}) ELSE Min({b, n})
    IN IF lo < hi THEN SubSeq(t, lo + 1, hi) ELSE <<>>

RECURSIVE LastNonSpace(_, _)
LastNonSpace(t, i) ==
    IF i < 1 THEN 0
    ELSE IF t[i] \in Whitespace THEN LastNonSpace(t, i - 1)
    ELSE i

Strip_Identity(t) == t

\* str.strip()
Strip(t) == SubSeq(t, RunEnd(t, 1, Whitespace), LastNonSpace(t, Len(t)))

\* the header patterns in the order annotate() visits them (by section type,
\* then by list position): r"physical\s+exam(?:ination)?" and
\* r"exam(?:ination)?" of physical_exam, each as the words \s+ separates;
\* no other default pattern matches a text made of the pieces below
SectionPatterns ==
    << [type |-> "physical_exam", words |-> << Spell.physical, Spell.exam >>],
       [type |-> "physical_exam", words |-> << Spell.exam >>] >>

\* the words of a pattern at position i, \s+ between them: the position after
\* the last word, 0 when they are not there
RECURSIVE MatchWordsAt(_, _, _)
MatchWordsAt(t, i, words) ==
    LET w == Head(words)
        after == i + Len(w)
    IN IF after - 1 <= Len(t) /\ SubSeq(t, i, after - 1) = w
       THEN IF Tail(words) = <<>> THEN after
            ELSE IF RunEnd(t, after, Whitespace) > after
                 THEN MatchWordsAt(t, RunEnd(t, after, Whitespace), Tail(words))
                 ELSE 0
       ELSE 0

\* rf"\b{pattern}\b\s*:?\s*" at position i: the position after the match, 0
\* when there is no match at i
MatchHeaderAt(t, i, words) ==
    LET e == MatchWordsAt(t, i, words)
        colon == RunEnd(t, e, Whitespace)
    IN IF /\ (i = 1 \/ t[i - 1] \notin WordChars)
          /\ e > 0
          /\ (e > Len(t) \/ t[e] \notin WordChars)
       THEN IF colon <= Len(t) /\ t[colon] = ":"
            THEN RunEnd(t, colon + 1, Whitespace)
            ELSE colon
       ELSE 0

\* pattern.finditer(text): the matches left to right, each search resuming
\* where the last match ended; start and end are offsets from 0
RECURSIVE FindIter(_, _, _)
FindIter(t, pos, pattern) ==
    IF pos > Len(t) THEN <<>>
    ELSE LET e == MatchHeaderAt(t, pos, pattern.words) IN
         IF e > 0
         THEN << [start |-> pos - 1, end |-> e - 1, type |-> pattern.type] >>
              \o FindIter(t, e, pattern)
         ELSE FindIter(t, pos + 1, pattern)

\* section_boundaries before the sort: pattern by pattern
RECURSIVE CollectBoundaries(_, _)
CollectBoundaries(t, patterns) ==
    IF patterns = <<>> THEN <<>>
    ELSE FindIter(t, 1, Head(patterns)) \o CollectBoundaries(t, Tail(patterns))

RECURSIVE InsertByStart(_, _)
InsertByStart(b, sorted) ==
    IF sorted = <<>> THEN << b >>
    ELSE IF b.start < Head(sorted).start THEN << b >> \o sorted
    ELSE << Head(sorted) >> \o InsertByStart(b, Tail(sorted))

\* section_boundaries.sort(key=lambda x: x['start']), a stable sort
RECURSIVE SortByStart(_)
SortByStart(list) ==
    IF list = <<>> THEN <<>>
    ELSE InsertByStart(list[Len(list)], SortByStart(SubSeq(list, 1, Len(list) - 1)))

ContentEnd_NextEnd(t, boundaries, i) ==
    IF i + 1 <= Len(boundaries) THEN boundaries[i + 1].end ELSE Len(t)

\* content_end of the i-th boundary
ContentEnd(t, boundaries, i) ==
    IF i + 1 <= Len(boundaries) THEN boundaries[i + 1].start ELSE Len(t)

\* the SectionAnnotation of the i-th boundary
Section(t, boundaries, i) ==
    LET boundary == boundaries[i]
        content_end == ContentEnd(t, boundaries, i)
    IN [kind |-> "section", start |-> boundary.start, end |-> content_end,
        text |-> Strip(PySlice(t, boundary.start, content_end)),
        section_type |-> boundary.type,
        content |-> Strip(PySlice(t, boundary.end, content_end)),
        header_start |-> boundary.start, header_end |-> boundary.end]

\* ClinicalSectionDetector.annotate
SectionAnnotate(t) ==
    LET section_boundaries == SortByStart(CollectBoundaries(t, SectionPatterns))
    IN [i \in 1..Len(section_boundaries) |-> Section(t, section_boundaries, i)]

\* re.split(r'([.!?]+)\s+', text): text segments and punctuation runs in
\* turn; a run splits when white space follows it, and that white space is
\* dropped.  from is where the current text segment began
RECURSIVE SplitFrom(_, _, _)
SplitFrom(t, i, from) ==
    IF i > Len(t) THEN << SubSeq(t, from, Len(t)) >>
    ELSE IF t[i] \in SentencePunctuation
    THEN LET e == RunEnd(t, i, SentencePunctuation)
             w == RunEnd(t, e, Whitespace)
         IN IF w > e
            THEN << SubSeq(t, from, i - 1), SubSeq(t, i, e - 1) >> \o SplitFrom(t, w, w)
            ELSE SplitFrom(t, e, from)
    ELSE SplitFrom(t, i + 1, from)

\* self.clinical_abbrevs, as far as the pieces below can spell them
ClinicalAbbrevs == { Spell.mg \o Period }

\* text.split()[-1] of a stripped, non-empty text
LastWord(t) ==
    LET RECURSIVE WordStart(_)
        WordStart(i) == IF i < 1 \/ t[i] \in Whitespace THEN i + 1 ELSE WordStart(i - 1)
    IN SubSeq(t, WordStart(Len(t)), Len(t))

\* _is_sentence_boundary (the texts below hold no digits)
IsSentenceBoundary(t) == ~(t # <<>> /\ LastWord(t) \in ClinicalAbbrevs)

\* a SentenceAnnotation
Sentence(current_pos, sentence_text) ==
    [kind |-> "sentence", start |-> current_pos,
     end |-> current_pos + Len(sentence_text), text |-> sentence_text]

\* the loop over splits, from the k-th segment on, and the remaining text
RECURSIVE SegmentLoop(_, _, _, _)
SegmentLoop(splits, k, current_pos, current_sentence) ==
    IF k > Len(splits)
    THEN IF Strip(current_sentence) # <<>>
         THEN << Sentence(current_pos, Strip(current_sentence)) >>
         ELSE <<>>
    ELSE LET grown == current_sentence \o splits[k] IN
         IF k % 2 = 1
         THEN SegmentLoop(splits, k + 1, current_pos, grown)
         ELSE IF IsSentenceBoundary(Strip(grown))
         THEN (IF Strip(grown) # <<>>
               THEN << Sentence(current_pos, Strip(grown)) >>
               ELSE <<>>)
              \o SegmentLoop(splits, k + 1, current_pos + Len(grown), <<>>)
         ELSE SegmentLoop(splits, k + 1, current_pos, grown)

\* ClinicalSentenceSegmenter._rule_based_segmentation
RuleBasedSegmentation(t) == SegmentLoop(SplitFrom(t, 1, 1), 1, 0, <<>>)

\* the pieces the texts of the two stages are put together from
SegmentPieces == { Spell.physical, Spell.exam, Spell.mg, Space, Colon, Period }

SegmentTexts ==
    { Flatten(pieces) :
          pieces \in UNION { [1..n -> SegmentPieces] : n \in 0..MaxSegmentPieces } }

\* ClinicalSectionDetector.annotate(document)
DetectSections ==
    /\ tpc = "input"
    /\ produced' = SectionAnnotate(text)
    /\ tpc' = "sections"
    /\ UNCHANGED <<text, doc_annotations, pvars, rvars, avars, hvars, bvars>>

\* ClinicalSentenceSegmenter.annotate(document) without an NLP backend
SegmentSentences ==
    /\ tpc = "input"
    /\ produced' = RuleBasedSegmentation(text)
    /\ tpc' = "sentences"
    /\ UNCHANGED <<text, doc_annotations, pvars, rvars, avars, hvars, bvars>>

SegmentInit ==
    /\ PipelineInit /\ ~fail_on_error
    /\ ResolverIdle /\ AssertionIdle /\ StageIdle /\ BatchIdle
    /\ text \in SegmentTexts
    /\ doc_annotations = <<>>
    /\ produced = <<>>
    /\ tpc = "input"

SegmentNext == DetectSections \/ SegmentSentences

SpecSegment == SegmentInit /\ [][SegmentNext]_vars

(***************************************************************************)
(* Claims about the section detector and the sentence segmenter            *)
(***************************************************************************)
\* C12: when at least one header matches, the sections come in ascending
\* start order, each ends exactly where the next one starts and the last one
\* ends at len(text)
C12_SectionsContiguous ==
    (tpc = "sections" /\ produced # <<>>)
        => /\ \A i \in 1..(Len(produced) - 1) :
                  /\ produced[i].start <= produced[i + 1].start
                  /\ produced[i].end = produced[i + 1].start
           /\ produced[Len(produced)].end = Len(text)

C12_Witness ==
    /\ tpc = "sections"
    /\ Len(produced) = 2
    /\ produced[1].start < produced[2].start
    /\ produced[2].start < Len(text)

\* C13: every annotation a stage creates has text equal to
\* document.text[span.start:span.end]; so has every Section annotation and
\* every rule-based Sentence annotation
C13_TextIsSpanSubstring ==
    tpc \in {"sections", "sentences"}
        => \A i \in 1..Len(produced) :
               produced[i].text = PySlice(text, produced[i].start, produced[i].end)

(***************************************************************************)
(* The data model (pyctakes/types.py): Span, the annotation classes and    *)
(* Document.  A Document is the pair of text and doc_annotations; produced *)
(* holds what the last call returned and tpc names that call.              *)
(***************************************************************************)
\* longest annotation list of a Document
MaxAnnotations == 2

\* Span(start, end): the dataclass stores any two integers
Span(start, end) == [start |-> start, end |-> end]

SpanOffsets == {-1, 0, 2, 3}

Spans == { Span(s, e) : s \in SpanOffsets, e \in SpanOffsets }

\* the texts of the documents
DocumentTexts == { <<>>, <<"a", "b">> }

\* the members of AnnotationType
AnnotationTypes ==
    { "token", "sentence", "section", "named_entity", "concept", "assertion",
      "relation", "temporal" }

\* Annotation and its kind-specific subclasses
AnnotationClasses ==
    { "Annotation", "TokenAnnotation", "SentenceAnnotation", "SectionAnnotation",
      "NamedEntityAnnotation", "ConceptAnnotation", "RelationAnnotation" }

\* the AnnotationType a subclass's __post_init__ compares with
OwnType(class) ==
    CASE class = "TokenAnnotation" -> "token"
      [] class = "SentenceAnnotation" -> "sentence"
      [] class = "SectionAnnotation" -> "section"
      [] class = "NamedEntityAnnotation" -> "named_entity"
      [] class = "ConceptAnnotation" -> "concept"
      [] class = "RelationAnnotation" -> "relation"

PostInit_Keep(class, annotation_type) == annotation_type

\* __post_init__: annotation_type after construction (Annotation has none)
PostInit(class, annotation_type) ==
    IF class = "Annotation" THEN annotation_type
    ELSE IF annotation_type # OwnType(class) THEN OwnType(class)
    ELSE annotation_type

\* class(span=span, text=..., annotation_type=annotation_type)
NewAnnotation(class, span, annotation_type) ==
    [class |-> class, span |-> span,
     annotation_type |-> PostInit(class, annotation_type)]

\* Document.add_annotation(annotation)
AddAnnotation(annotation) ==
    /\ tpc # "off"
    /\ Len(doc_annotations) < MaxAnnotations
    /\ doc_annotations' = Append(doc_annotations, annotation)
    /\ produced' = None
    /\ tpc' = "add_annotation"
    /\ UNCHANGED <<text, pvars, rvars, avars, hvars, bvars>>

\* Document.get_text_span(span)
GetTextSpan(span) ==
    /\ tpc # "off"
    /\ produced' = [span |-> span, ret |-> PySlice(text, span.start, span.end)]
    /\ tpc' = "get_text_span"
    /\ UNCHANGED <<text, doc_annotations, pvars, rvars, avars, hvars, bvars>>

\* process_document: document.annotations.extend(annotations) with the list
\* a stage returned
ExtendAnnotations(annotations) ==
    /\ tpc # "off"
    /\ Len(doc_annotations) + Len(annotations) <= MaxAnnotations
    /\ doc_annotations' = doc_annotations \o annotations
    /\ produced' = None
    /\ tpc' = "process_document"
    /\ UNCHANGED <<text, pvars, rvars, avars, hvars, bvars>>

\* Document(text=...)
DocumentInit ==
    /\ PipelineInit /\ ~fail_on_error
    /\ ResolverIdle /\ AssertionIdle /\ StageIdle /\ BatchIdle
    /\ text \in DocumentTexts
    /\ doc_annotations = <<>>
    /\ produced = None
    /\ tpc = "construct"

DocumentNext ==
    \/ \E span \in Spans : AddAnnotation(NewAnnotation("Annotation", span, "named_entity"))
    \/ \E span \in Spans :
           ExtendAnnotations(<< NewAnnotation("Annotation", span, "named_entity") >>)
    \/ \E span \in Spans : GetTextSpan(span)

SpecDocument == DocumentInit /\ [][DocumentNext]_vars

\* a.overlaps(b)
Overlaps(a, b) ==
    /\ tpc # "off"
    /\ produced' = [a |-> a, b |-> b, ret |-> SpanOverlaps(a, b)]
    /\ tpc' = "overlaps"
    /\ UNCHANGED <<text, doc_annotations, pvars, rvars, avars, hvars, bvars>>

\* the constructor call of an annotation class
Construct(class, span, annotation_type) ==
    /\ tpc # "off"
    /\ produced' = [class |-> class, given |-> annotation_type,
                    ret |-> NewAnnotation(class, span, annotation_type)]
    /\ tpc' = "new"
    /\ UNCHANGED <<text, doc_annotations, pvars, rvars, avars, hvars, bvars>>

TypesInit ==
    /\ PipelineInit /\ ~fail_on_error
    /\ ResolverIdle /\ AssertionIdle /\ StageIdle /\ BatchIdle
    /\ text = <<>>
    /\ doc_annotations = <<>>
    /\ produced = None
    /\ tpc = "construct"

TypesNext ==
    \/ \E a \in Spans, b \in Spans : Overlaps(a, b)
    \/ \E class \in AnnotationClasses, span \in Spans, annotation_type \in AnnotationTypes :
           Construct(class, span, annotation_type)

SpecTypes == TypesInit /\ [][TypesNext]_vars

(***************************************************************************)
(* Claims about the data model                                             *)
(***************************************************************************)
\* C14: every annotation stored in a Document has a span with
\* 0 <= start <= end <= len(text), whatever was added
C14_StoredSpansWithinText ==
    \A i \in 1..Len(doc_annotations) :
        /\ 0 <= doc_annotations[i].span.start
        /\ doc_annotations[i].span.start <= doc_annotations[i].span.end
        /\ doc_annotations[i].span.end <= Len(text)

\* C15: a.overlaps(b) is true iff a.start < b.end and a.end > b.start, also
\* for zero-length spans; spans that touch at an endpoint do not overlap;
\* a.overlaps(b) = b.overlaps(a)
C15_OverlapsStrictAndSymmetric ==
    tpc = "overlaps"
        => /\ produced.ret = (produced.a.start < produced.b.end
                              /\ produced.a.end > produced.b.start)
           /\ (produced.a.end = produced.b.start \/ produced.b.end = produced.a.start)
                  => ~produced.ret
           /\ produced.ret = SpanOverlaps(produced.b, produced.a)

C15_Witness ==
    /\ tpc = "overlaps"
    /\ produced.a.start = produced.a.end
    /\ produced.b.start < produced.a.start /\ produced.a.end < produced.b.end
    /\ produced.ret

\* C20: a kind-specific annotation class constructed with any
\* annotation_type yields an object whose annotation_type is the class's own
C20_OwnKindAfterConstruction ==
    (tpc = "new" /\ produced.class # "Annotation")
        => produced.ret.annotation_type =
               (CASE produced.class = "TokenAnnotation" -> "token"
                  [] produced.class = "SentenceAnnotation" -> "sentence"
                  [] produced.class = "SectionAnnotation" -> "section"
                  [] produced.class = "NamedEntityAnnotation" -> "named_entity"
                  [] produced.class = "ConceptAnnotation" -> "concept"
                  [] produced.class = "RelationAnnotation" -> "relation")

C20_Witness ==
    /\ tpc = "new"
    /\ produced.class = "NamedEntityAnnotation"
    /\ produced.given = "token"
    /\ produced.ret.annotation_type = "named_entity"

(***************************************************************************)
(* Claims about the stage list                                             *)
(***************************************************************************)
StageNames == { StageName(s) : s \in Stages }

\* list without every stage called name, the others in their order
RECURSIVE WithoutName(_, _)
WithoutName(list, name) ==
    IF list = <<>> THEN <<>>
    ELSE IF StageName(Head(list)) = name THEN WithoutName(Tail(list), name)
    ELSE << Head(list) >> \o WithoutName(Tail(list), name)

PreprocessHooks == { "default", "custom", "copy" }

\* how a subclass defines postprocess: not at all, or changing the annotations
PostprocessHooks == { "default", "custom" }

StageTexts == { <<>>, <<"a", "b">>, <<" ", "a">> }

\* the Documents a caller hands over; id tells the objects apart
StageDocuments ==
    { [id |-> 1, text |-> t, metadata |-> m] :
          t \in StageTexts, m \in { {}, {"source"} } }

\* preprocess(document): the caller's document afterwards and the returned one
Preprocess(hook, document) ==
    IF hook = "default" THEN [document |-> document, ret |-> document]
    ELSE IF hook = "custom"
    THEN LET changed == [document EXCEPT !.metadata = @ \cup {"preprocessed"}]
         IN [document |-> changed, ret |-> changed]
    ELSE [document |-> document,
          ret |-> [id |-> 2, text |-> Strip(document.text), metadata |-> document.metadata]]

\* annotate(document) of the test's ConcreteAnnotator
StageAnnotate(document) ==
    IF Len(document.text) > 0
    THEN << [span |-> Span(0, Min({5, Len(document.text)})),
             text |-> PySlice(document.text, 0, Min({5, Len(document.text)})),
             annotation_type |-> "token", metadata |-> {}] >>
    ELSE <<>>

\* postprocess(document, annotations)
Postprocess(hook, document, annotations) ==
    IF hook = "default" THEN annotations
    ELSE [i \in 1..Len(annotations) |->
             [annotations[i] EXCEPT !.metadata = @ \cup {"postprocessed"}]]

Call(name, arg, ret) == [call |-> name, arg |-> arg, ret |-> ret]

AnnotateArgument_Document(document, preprocessed_doc) == document

\* the document process hands to annotate
AnnotateArgument(document, preprocessed_doc) == preprocessed_doc

\* stage.process(document)
StageProcess(document) ==
    /\ IF ~stage.is_initialized /\ stage.init_raises
       THEN /\ scall' = [before |-> document, was_initialized |-> stage.is_initialized,
                         trace |-> << Call("initialize", <<>>, <<>>) >>,
                         outcome |-> "raised", ret |-> <<>>]
            /\ sdoc' = document
            /\ stage' = stage
       ELSE LET pre == Preprocess(stage.preprocess, document)
                seen == AnnotateArgument(document, pre.ret)
                annotations == StageAnnotate(seen)
                post == Postprocess(stage.postprocess, pre.document, annotations)
            IN /\ scall' = [before |-> document, was_initialized |-> stage.is_initialized,
                            trace |-> (IF stage.is_initialized THEN <<>>
                                       ELSE << Call("initialize", <<>>, <<>>) >>)
                                      \o << Call("preprocess", << document >>, pre.ret),
                                            Call("annotate", << seen >>, annotations),
                                            Call("postprocess", << pre.document, annotations >>, post) >>,
                            outcome |-> "returned", ret |-> post]
               /\ sdoc' = pre.document
               /\ stage' = [stage EXCEPT !.is_initialized = TRUE]
    /\ UNCHANGED <<pvars, rvars, avars, tvars, bvars>>

\* Annotator.__init__ of some subclass
StageInit ==
    /\ PipelineInit /\ ~fail_on_error
    /\ ResolverIdle /\ AssertionIdle /\ TextIdle /\ BatchIdle
    /\ stage \in [preprocess : PreprocessHooks, postprocess : PostprocessHooks,
                  init_raises : BOOLEAN, is_initialized : {FALSE}]
    /\ sdoc = "none"
    /\ scall = [before |-> "none", was_initialized |-> FALSE, trace |-> <<>>,
                outcome |-> "none", ret |-> <<>>]

StageNext == \E document \in StageDocuments : StageProcess(document)

SpecAnnotator == StageInit /\ [][StageNext]_vars

(***************************************************************************)
(* Claims about Annotator.process                                          *)
(***************************************************************************)
\* C18: process runs initialize() (only when the stage is not yet
\* initialized), preprocess(document), annotate(preprocessed document) and
\* postprocess(document, annotations) in this order and returns what
\* postprocess returns; with the default hooks that is annotate's output and
\* the document is left as it was
C18_ProcessOrder ==
    scall.outcome = "returned"
        => LET t == scall.trace
               k == IF scall.was_initialized THEN 0 ELSE 1
           IN /\ Len(t) = k + 3
              /\ k = 1 => t[1].call = "initialize"
              /\ t[k + 1].call = "preprocess" /\ t[k + 1].arg = << scall.before >>
              /\ t[k + 2].call = "annotate" /\ t[k + 2].arg = << t[k + 1].ret >>
              /\ t[k + 3].call = "postprocess"
              /\ t[k + 3].arg[1].id = scall.before.id
              /\ t[k + 3].arg[1] = sdoc
              /\ t[k + 3].arg[2] = t[k + 2].ret
              /\ scall.ret = t[k + 3].ret
              /\ (stage.preprocess = "default" /\ stage.postprocess = "default")
                     => scall.ret = t[k + 2].ret /\ sdoc = scall.before

C18_Witness ==
    /\ scall.outcome = "returned"
    /\ scall.was_initialized
    /\ stage.preprocess = "copy" /\ stage.postprocess = "custom"
    /\ scall.before.text = <<" ", "a">>
    /\ Len(scall.ret) = 1 /\ scall.ret[1].text = <<"a">>
    /\ "postprocessed" \in scall.ret[1].metadata

(***************************************************************************)
(* Pipeline.process_text and Pipeline.batch_process (pyctakes/pipeline.py) *)
(* with stages that are functions of what they are given: a stage's        *)
(* initialize() raises or not as the stage is configured, and its          *)
(* annotate() raises or not on a text.                                     *)
(***************************************************************************)
\* longest list of texts handed to batch_process
MaxBatch == 2

BatchTexts == { "t1", "t2" }

\* the texts annotate() of stage s raises on
AnnotateFails(s, t) == s = 2 /\ t = "t2"

\* what annotate() of stage s returns for the text t of a document holding doc
TextAnnotateOut(s, t, doc) ==
    LET out == AnnotateOut(s, doc)
    IN [k \in 1..Len(out) |-> [by |-> out[k].by, n |-> out[k].n, of |-> t]]

\* f"doc_{i}", as the sequence of its pieces
DocId_OneBased(i) == << "doc_", i + 1 >>

DocId(i) == << "doc_", i >>

\* doc_id=None, the default of process_text
NoDocId == <<>>

\* Document(text=text, doc_id=doc_id): the annotation list is a new, empty one
NewDocument(t, doc_id) == [text |-> t, doc_id |-> doc_id, annotations |-> <<>>]

\* the state one process_document call works on
RunState(flags, doc) ==
    [doc |-> doc, errors |-> <<>>, isInit |-> flags.isInit, pipeInit |-> flags.pipeInit,
     exc |-> NoException]

\* Pipeline.initialize from position i; a raising initialize() propagates
RECURSIVE InitializeStagesFrom(_, _)
InitializeStagesFrom(i, st) ==
    IF i > Len(annotators) THEN [st EXCEPT !.pipeInit = TRUE]
    ELSE LET s == annotators[i] IN
         IF ~NeedsInitialize(st, s) THEN InitializeStagesFrom(i + 1, st)
         ELSE IF s \in broken
         THEN [st EXCEPT !.exc = [type |-> "stage", msg |-> InitMessage]]
         ELSE InitializeStagesFrom(i + 1, [st EXCEPT !.isInit[s] = TRUE])

StageOutput_ColdStart(st, s, t) ==
    IF ~st.isInit[s] THEN <<>> ELSE TextAnnotateOut(s, t, st.doc)

\* annotations = annotator.process(document), st being the state before the call
StageOutput(st, s, t) == TextAnnotateOut(s, t, st.doc)

\* the stage loop of process_document from position i on a document with text t
RECURSIVE TextStageLoopFrom(_, _, _)
TextStageLoopFrom(i, t, st) ==
    IF i > Len(annotators) \/ st.exc # NoException THEN st
    ELSE LET s == annotators[i]
             ready == IF NeedsInitialize(st, s) /\ s \notin broken
                      THEN [st EXCEPT !.isInit[s] = TRUE]
                      ELSE st
         IN TextStageLoopFrom(i + 1, t,
                IF NeedsInitialize(st, s) /\ s \in broken
                THEN HandleStageError(st, s, InitMessage)
                ELSE IF AnnotateFails(s, t)
                THEN HandleStageError(ready, s, AnnotateMessage)
                ELSE [ready EXCEPT !.doc = ExtendDocument(@, StageOutput(st, s, t))])

\* process_text(text, doc_id) with the flags as they stand: the flags
\* afterwards, whether the call raised, and the ProcessingResult
ProcessTextRun(flags, t, doc_id) ==
    LET document == NewDocument(t, doc_id)
        st0 == RunState(flags, document.annotations)
        afterInit == IF st0.pipeInit THEN st0 ELSE InitializeStagesFrom(1, st0)
        st == IF afterInit.exc # NoException THEN afterInit
              ELSE TextStageLoopFrom(1, t, afterInit)
    IN [flags |-> [isInit |-> st.isInit, pipeInit |-> st.pipeInit],
        raised |-> st.exc # NoException,
        result |-> [document |-> [document EXCEPT !.annotations = st.doc],
                    errors |-> st.errors]]

\* the loop of batch_process from the i-th text (counted from 0) on: the
\* flags afterwards, whether a call raised, and the results so far
RECURSIVE BatchFrom(_, _, _, _)
BatchFrom(texts, i, flags, results) ==
    IF i >= Len(texts) THEN [flags |-> flags, raised |-> FALSE, results |-> results]
    ELSE LET run == ProcessTextRun(flags, texts[i + 1], DocId(i)) IN
         IF run.raised THEN [flags |-> run.flags, raised |-> TRUE, results |-> results]
         ELSE BatchFrom(texts, i + 1, run.flags, Append(results, run.result))

CurrentFlags == [isInit |-> is_initialized, pipeInit |-> pipeline_initialized]

\* what a call leaves behind; the observer may keep one of its results
Finish(op, texts, flags, raised, results) ==
    /\ is_initialized' = flags.isInit
    /\ pipeline_initialized' = flags.pipeInit
    /\ returned' = [op |-> op, texts |-> texts,
                    outcome |-> IF raised THEN "raised" ELSE "returned",
                    results |-> IF raised THEN <<>> ELSE results]
    /\ \/ remembered' = remembered
       \/ \E k \in 1..Len(results) : remembered' = << results[k] >>
    /\ UNCHANGED <<annotators, fail_on_error, initCalls, initReturns, earlyAnnotate,
                   last, broken, rvars, avars, tvars, hvars>>

\* Pipeline.process_text(text)
ProcessText(t) ==
    LET run == ProcessTextRun(CurrentFlags, t, NoDocId)
    IN Finish("process_text", << t >>, run.flags, run.raised,
              IF run.raised THEN <<>> ELSE << run.result >>)

\* Pipeline.batch_process(texts)
BatchProcess(texts) ==
    LET run == BatchFrom(texts, 0, CurrentFlags, <<>>)
    IN Finish("batch_process", texts, run.flags, run.raised, run.results)

StageLists == UNION { [1..n -> Stages] : n \in 0..MaxStages }

\* a pipeline after its add_annotator calls, which may have come after an
\* initialize() of the then shorter stage list
BatchInit ==
    /\ annotators \in StageLists
    /\ pipeline_initialized \in BOOLEAN
    /\ is_initialized = [s \in Stages |-> FALSE]
    /\ fail_on_error \in BOOLEAN
    /\ initCalls = [s \in Stages |-> 0]
    /\ initReturns = [s \in Stages |-> 0]
    /\ earlyAnnotate = {}
    /\ last = NoCall("construct")
    /\ ResolverIdle /\ AssertionIdle /\ TextIdle /\ StageIdle
    /\ broken \in SUBSET Stages
    /\ remembered = <<>>
    /\ returned = [op |-> "construct", texts |-> <<>>, outcome |-> "none", results |-> <<>>]

BatchNext ==
    \/ \E t \in BatchTexts : ProcessText(t)
    \/ \E texts \in UNION { [1..n -> BatchTexts] : n \in 0..MaxBatch } : BatchProcess(texts)

SpecBatch == BatchInit /\ [][BatchNext]_vars

(***************************************************************************)
(* Claims about process_text and batch_process                             *)
(***************************************************************************)
\* the results in hand: the kept earlier one and those of the last call
ResultsInHand == remembered \o returned.results

\* C16: two results of the same pipeline for the same text hold identical
\* annotation sequences, whatever was processed in between and before
C16_SameTextSameAnnotations ==
    \A i, j \in 1..Len(ResultsInHand) :
        ResultsInHand[i].document.text = ResultsInHand[j].document.text
            => ResultsInHand[i].document.annotations = ResultsInHand[j].document.annotations

\* an earlier batch result and a later process_text result for the same text,
\* the first obtained while stage 1 was still uninitialised
C16_Witness ==
    /\ Len(remembered) = 1
    /\ remembered[1].document.doc_id = DocId(1)
    /\ returned.op = "process_text" /\ returned.outcome = "returned"
    /\ returned.results[1].document.text = remembered[1].document.text
    /\ returned.results[1].document.annotations # <<>>
    /\ pipeline_initialized /\ is_initialized[1]

\* C17: batch_process returns one result per text, in order; result i wraps a
\* Document with text texts[i] and doc_id "doc_i" that holds only annotations
\* made from that text
C17_BatchResultsPerText ==
    (returned.op = "batch_process" /\ returned.outcome = "returned")
        => /\ Len(returned.results) = Len(returned.texts)
           /\ \A i \in 1..Len(returned.results) :
                 LET document == returned.results[i].document IN
                 /\ document.text = returned.texts[i]
                 /\ document.doc_id = << "doc_", i - 1 >>
                 /\ \A k \in 1..Len(document.annotations) :
                        document.annotations[k].of = returned.texts[i]

C17_Witness ==
    /\ returned.op = "batch_process" /\ returned.outcome = "returned"
    /\ returned.texts = << "t1", "t2" >>
    /\ Len(returned.results) = 2
    /\ returned.results[1].document.annotations # <<>>
    /\ returned.results[2].document.annotations # <<>>
    /\ returned.results[2].errors # <<>>
(***************************************************************************)
(* The scan of the overlap resolver                                        *)
(***************************************************************************)
\* the elements of seq at the positions in A, in order
RECURSIVE Pick(_, _)
Pick(seq, A) ==
    IF seq = <<>> THEN <<>>
    ELSE Pick(SubSeq(seq, 1, Len(seq) - 1), A)
             \o (IF Len(seq) \in A THEN << seq[Len(seq)] >> ELSE <<>>)

\* the positions of the scan order whose candidate overlaps no accepted
\* candidate before it
AcceptedPositions ==
    { A \in SUBSET (1..Len(entities)) :
        \A i \in 1..Len(entities) :
            i \in A <=> ~\E j \in A : j < i /\ SpanOverlaps(entities[i], entities[j]) }

\* the number of positions of seq that hold x
Count(seq, x) == Cardinality({ j \in 1..Len(seq) : seq[j] = x })

\* C21: the resolver scans the candidates by start ascending and, for equal
\* starts, confidence descending; it accepts a candidate iff it overlaps no
\* candidate accepted before it and returns the accepted ones in scan order.
\* So the output is part of the input, every discarded candidate overlaps an
\* accepted one that precedes it, and a non-empty input gives a non-empty output.
C21_GreedyScanInKeyOrder ==
    rpc = "done" =>
        /\ Len(entities) = Len(candidates)
        /\ \A c \in Range(candidates) : Count(entities, c) = Count(candidates, c)
        /\ \A i, j \in 1..Len(entities) :
               i < j => \/ entities[i].start < entities[j].start
                        \/ /\ entities[i].start = entities[j].start
                           /\ entities[i].confidence >= entities[j].confidence
        /\ \E A \in AcceptedPositions :
               /\ resolved = Pick(entities, A)
               /\ \A i \in (1..Len(entities)) \ A :
                      \E j \in A : j < i /\ SpanOverlaps(entities[i], entities[j])
        /\ Range(resolved) \subseteq Range(candidates)
        /\ candidates # <<>> => resolved # <<>>

\* the scan reordered the input, kept two candidates and discarded one whose
\* confidence is higher than that of an accepted one
C21_Witness ==
    /\ rpc = "done"
    /\ entities # candidates
    /\ Len(resolved) = 2
    /\ \E i \in 1..Len(entities) :
           /\ \A k \in 1..Len(resolved) : resolved[k] # entities[i]
           /\ \E k \in 1..Len(resolved) : resolved[k].confidence < entities[i].confidence
(***************************************************************************)
(* Which cues apply to an entity                                           *)
(***************************************************************************)
\* the rule of applicability for the cue occurrence at position j
AppliesAt(j) ==
    LET m == cue_matches[j]
    IN CASE m.cue.direction = "forward" ->
               /\ m.end_word < EntityFirst
               /\ EntityFirst - m.end_word <= m.cue.max_distance
         [] m.cue.direction = "backward" ->
               /\ m.start_word > EntityLast
               /\ m.start_word - EntityLast <= m.cue.max_distance
         [] m.cue.direction = "bidirectional" ->
               (IF m.end_word < EntityFirst THEN EntityFirst - m.end_word
                ELSE IF m.start_word > EntityLast THEN m.start_word - EntityLast
                ELSE 0) <= m.cue.max_distance

\* the entry of applicable_cues for the cue occurrence at position j
EntryOf(j) ==
    LET m == cue_matches[j]
    IN [cue |-> m.cue,
        distance |-> IF m.end_word < EntityFirst THEN EntityFirst - m.end_word
                     ELSE IF m.start_word > EntityLast THEN m.start_word - EntityLast
                     ELSE 0]

AppliesPositions == { j \in 1..Len(cue_matches) : AppliesAt(j) }

\* C22: a forward cue applies iff its last word is strictly before the
\* entity's first word and entity_start - cue_end <= its max distance; a
\* backward cue iff its first word is strictly after the entity's last word
\* and cue_start - entity_end <= its max distance; a bidirectional cue iff
\* its distance on the side it lies (0 when it overlaps the entity) is <= its
\* max distance.  The applicable cues are exactly those occurrences.
C22_DirectionAndDistanceDecide ==
    (apc = "done" /\ entity_word_indices # {}) =>
        /\ Len(applicable_cues) = Cardinality(AppliesPositions)
        /\ \A j \in AppliesPositions :
               Count(applicable_cues, EntryOf(j))
                   = Cardinality({ k \in AppliesPositions : EntryOf(k) = EntryOf(j) })

\* "nil" three words before the entity is out of its reach of two words,
\* "excluding" on the entity's first word applies at distance 0
C22_Witness ==
    /\ apc = "done"
    /\ entity_word_indices = {3, 4}
    /\ cue_matches =
          << [cue |-> Cue("nil", 1, "negation", "forward", 2), start_word |-> 0, end_word |-> 0],
             [cue |-> Cue("excluding", 1, "negation", "bidirectional", 1), start_word |-> 3, end_word |-> 3] >>
    /\ applicable_cues = << [cue |-> Cue("excluding", 1, "negation", "bidirectional", 1), distance |-> 0] >>
(***************************************************************************)
(* What the assertion stage returns and what it leaves alone               *)
(***************************************************************************)
\* the document's annotations of type NAMED_ENTITY, in document order
NamedEntitiesOfDocument == SelectSeq(doc_annotations, LAMBDA a : a.kind = "named_entity")

AssertionValues ==
    { "present", "absent", "possible", "conditional", "hypothetical",
      "family_history", "historical" }

\* copy is original with the assertion metadata attached and the confidence
\* multiplied by 0.95
IsLabelledCopy(copy, original) ==
    /\ copy.class = "NamedEntityAnnotation"
    /\ copy.kind = "named_entity"
    /\ copy.start = original.start /\ copy.end = original.end
    /\ copy.text = original.text
    /\ copy.entity_type = original.entity_type
    /\ copy.entity_subtype = original.entity_subtype
    /\ copy.confidence * 100 = original.confidence * 95
    /\ \E status \in AssertionValues :
           copy.metadata =
               { item \in original.metadata : item[1] \notin {"assertion", "context_applied"} }
                   \cup { <<"assertion", status>>, <<"context_applied", "True">> }

\* C23: for each NamedEntityAnnotation among the document's named entities
\* the assertion stage returns exactly one new annotation with the same span,
\* text, entity_type and entity_subtype, the original metadata plus
\* assertion=<status> and context_applied=true, and the original confidence
\* times 0.95; the originals and the document's annotation list stay as they were.
C23_LabelledCopiesLeaveDocumentAlone ==
    [][ tpc' = "assertion" =>
          /\ doc_annotations' = doc_annotations
          /\ text' = text
          /\ Len(produced') = Len(NamedEntitiesOfDocument)
          /\ \A k \in 1..Len(NamedEntitiesOfDocument) :
                 NamedEntitiesOfDocument[k].class = "NamedEntityAnnotation"
                     => IsLabelledCopy(produced'[k], NamedEntitiesOfDocument[k]) ]_vars

\* a negated entity that came with metadata and confidence 1.0 was returned
\* with both metadata and label at confidence 0.95, next to a second entity
C23_Witness ==
    /\ tpc = "assertion"
    /\ Len(produced) = 2
    /\ \E k \in 1..Len(produced) :
           /\ produced[k].confidence = 9500
           /\ produced[k].metadata = { <<"source", "rule">>, <<"assertion", "absent">>,
                                       <<"context_applied", "True">> }
    /\ \E k \in 1..Len(doc_annotations) :
           /\ doc_annotations[k].confidence = 10000
           /\ doc_annotations[k].metadata = { <<"source", "rule">> }
(***************************************************************************)
(* A section and its header                                                *)
(***************************************************************************)
\* C24: every Section annotation spans its whole header together with its
\* body: span.start is the header match's start and span.end is at or after
\* the header match's end, also when another header pattern matches inside
\* that header
C24_SectionSpansItsHeader ==
    tpc = "sections" =>
        \A i \in 1..Len(produced) :
            /\ produced[i].start = produced[i].header_start
            /\ produced[i].end >= produced[i].header_end
(***************************************************************************)
(* The concept matcher, UMLSConceptMapper (pyctakes/annotators/umls.py).   *)
(* Confidences and the similarity floor are counted in 1/10000, a          *)
(* similarity is the fraction num/den.                                     *)
(***************************************************************************)
\* longest entity text handed to the matcher, counted in pieces
MaxConceptPieces == 3

UMLSConcept(cui, preferred_name, semantic_types, synonyms) ==
    [cui |-> cui, preferred_name |-> preferred_name,
     semantic_types |-> semantic_types, synonyms |-> synonyms]

\* two entries of the list `concepts` of _load_concept_mappings, in its order
Concepts ==
    << UMLSConcept("C0011847", Spell.Diabetes_Mellitus, {"T047"},
                   << Spell.diabetes, Spell.diabetes \o Space \o Spell.mellitus, Spell.dm >>),
       UMLSConcept("C0008031", Spell.Chest_Pain, {"T184"},
                   << Spell.chest_pain, Spell.chest \o Space \o Spell.discomfort >>) >>

\* term.lower() if not self.case_sensitive else term
TermKey(case_sensitive, term) == IF case_sensitive THEN term ELSE LowerText(term)

IndexTerm_Once(dictionary, term_key, concept) ==
    IF \E k \in 1..Len(dictionary) : dictionary[k].term = term_key
    THEN [k \in 1..Len(dictionary) |->
            IF dictionary[k].term = term_key /\ concept \notin Range(dictionary[k].concepts)
            THEN [dictionary[k] EXCEPT !.concepts = Append(@, concept)]
            ELSE dictionary[k]]
    ELSE Append(dictionary, [term |-> term_key, concepts |-> << concept >>])

\* self.concept_dictionary[term_key].append(concept): the dictionary is the
\* list of its (key, concepts) entries in insertion order
IndexTerm(dictionary, term_key, concept) ==
    IF \E k \in 1..Len(dictionary) : dictionary[k].term = term_key
    THEN [k \in 1..Len(dictionary) |->
            IF dictionary[k].term = term_key
            THEN [dictionary[k] EXCEPT !.concepts = Append(@, concept)]
            ELSE dictionary[k]]
    ELSE Append(dictionary, [term |-> term_key, concepts |-> << concept >>])

\* the inner loop over terms_to_index
RECURSIVE IndexTerms(_, _, _, _)
IndexTerms(dictionary, case_sensitive, terms, concept) ==
    IF terms = <<>> THEN dictionary
    ELSE IndexTerms(IndexTerm(dictionary, TermKey(case_sensitive, Head(terms)), concept),
                    case_sensitive, Tail(terms), concept)

\* the loop that builds the lookup dictionary
RECURSIVE IndexConcepts(_, _, _)
IndexConcepts(dictionary, case_sensitive, concepts) ==
    IF concepts = <<>> THEN dictionary
    ELSE IndexConcepts(
             IndexTerms(dictionary, case_sensitive,
                        << Head(concepts).preferred_name >> \o Head(concepts).synonyms,
                        Head(concepts)),
             case_sensitive, Tail(concepts))

\* the dictionary of a mapper built with case_sensitive on, and with it off
CaseSensitiveDictionary == IndexConcepts(<<>>, TRUE, Concepts)

LoweredDictionary == IndexConcepts(<<>>, FALSE, Concepts)

\* _load_concept_mappings
LoadConceptMappings(case_sensitive) ==
    IF case_sensitive THEN CaseSensitiveDictionary ELSE LoweredDictionary

\* self.concept_dictionary[text_key], <<>> when the key is missing
ConceptsUnder(dictionary, text_key) ==
    IF \E k \in 1..Len(dictionary) : dictionary[k].term = text_key
    THEN (CHOOSE e \in Range(dictionary) : e.term = text_key).concepts
    ELSE <<>>

\* the position after the run of characters outside class that starts at i
RECURSIVE RunEndOutside(_, _, _)
RunEndOutside(t, i, class) ==
    IF i > Len(t) THEN i
    ELSE IF t[i] \notin class THEN RunEndOutside(t, i + 1, class)
    ELSE i

\* set(text.split())
RECURSIVE SplitSet(_, _)
SplitSet(t, i) ==
    LET from == RunEnd(t, i, Whitespace)
        to == RunEndOutside(t, from, Whitespace)
    IN IF from > Len(t) THEN {}
       ELSE { SubSeq(t, from, to - 1) } \cup SplitSet(t, to)

\* _calculate_similarity: Jaccard similarity of the two word sets
CalculateSimilarity(text1, text2) ==
    LET words1 == SplitSet(text1, 1)
        words2 == SplitSet(text2, 1)
        intersection == Cardinality(words1 \cap words2)
        union == Cardinality(words1 \cup words2)
    IN IF words1 = {} /\ words2 = {} THEN [num |-> 1, den |-> 1]
       ELSE IF union > 0 THEN [num |-> intersection, den |-> union]
       ELSE [num |-> 0, den |-> 1]

\* type_mappings.get(entity_type, [])
CompatibleTypes(entity_type) ==
    CASE entity_type = "disorder" -> {"T047", "T048", "T049", "T050", "T184"}
      [] entity_type = "medication" -> {"T109", "T121", "T125", "T116"}
      [] entity_type = "sign_symptom" -> {"T184", "T033"}
      [] OTHER -> {}

IsCompatibleType_Strict(entity_type, concept) ==
    concept.semantic_types \cap CompatibleTypes(entity_type) # {}

\* _is_compatible_type: True inside the loop on a shared type, and True
\* after it
IsCompatibleType(entity_type, concept) ==
    IF concept.semantic_types \cap CompatibleTypes(entity_type) # {} THEN TRUE ELSE TRUE

\* the matches of the concepts of one dictionary entry at one confidence
Matched(entity_type, concepts, confidence) ==
    LET compatible == SelectSeq(concepts, LAMBDA c : IsCompatibleType(entity_type, c))
    IN [k \in 1..Len(compatible) |-> [concept |-> compatible[k], confidence |-> confidence]]

\* the loop over self.concept_dictionary.items() of approximate matching
RECURSIVE ApproximateMatches(_, _, _, _)
ApproximateMatches(config, dictionary, text_key, entity_type) ==
    IF dictionary = <<>> THEN <<>>
    ELSE LET similarity == CalculateSimilarity(text_key, Head(dictionary).term)
         IN (IF similarity.num * 10000 >= config.min_similarity * similarity.den
             THEN Matched(entity_type, Head(dictionary).concepts,
                          (similarity.num * 9000) \div similarity.den)
             ELSE <<>>)
            \o ApproximateMatches(config, Tail(dictionary), text_key, entity_type)

RECURSIVE InsertByConfidence(_, _)
InsertByConfidence(e, sorted) ==
    IF sorted = <<>> THEN << e >>
    ELSE IF e.confidence > Head(sorted).confidence THEN << e >> \o sorted
    ELSE << Head(sorted) >> \o InsertByConfidence(e, Tail(sorted))

\* matches.sort(key=lambda x: x[1], reverse=True): stable, equal
\* confidences keep their order
RECURSIVE SortByConfidence(_)
SortByConfidence(matches) ==
    IF matches = <<>> THEN <<>>
    ELSE InsertByConfidence(matches[Len(matches)],
                            SortByConfidence(SubSeq(matches, 1, Len(matches) - 1)))

\* matches[:3]
TopMatches(matches) == SubSeq(matches, 1, Min({3, Len(matches)}))

\* _find_concepts(text, entity_type) of a mapper built with config
FindConcepts(config, entity_text, entity_type) ==
    LET dictionary == LoadConceptMappings(config.case_sensitive)
        text_key == TermKey(config.case_sensitive, entity_text)
        exact == Matched(entity_type, ConceptsUnder(dictionary, text_key), 9500)
        matches == IF config.use_approximate_matching /\ exact = <<>>
                   THEN ApproximateMatches(config, dictionary, text_key, entity_type)
                   ELSE exact
    IN TopMatches(SortByConfidence(matches))

\* the options of the "concept_mapping" configuration
ConceptConfigs ==
    [use_approximate_matching : BOOLEAN, min_similarity : {3000, 5000, 8000},
     case_sensitive : BOOLEAN]

EntityTypes == {"disorder", "medication", "sign_symptom", "person"}

ConceptPieces ==
    { Spell.chest, Spell.pain, Spell.diabetes, Spell.mellitus, Spell.Chest, Space }

\* the entity texts the matcher is asked about
ConceptTexts ==
    { Flatten(p) : p \in UNION { [1..n -> ConceptPieces] : n \in 0..MaxConceptPieces } }

\* UMLSConceptMapper(config)._find_concepts(text, entity_type)
FindConceptsCall(config, entity_type) ==
    /\ tpc = "input"
    /\ produced' = [config |-> config, entity_type |-> entity_type,
                    ret |-> FindConcepts(config, text, entity_type)]
    /\ tpc' = "find_concepts"
    /\ UNCHANGED <<text, doc_annotations, pvars, rvars, avars, hvars, bvars>>

ConceptInit ==
    /\ PipelineInit /\ ~fail_on_error
    /\ ResolverIdle /\ AssertionIdle /\ StageIdle /\ BatchIdle
    /\ text \in ConceptTexts
    /\ doc_annotations = <<>>
    /\ produced = <<>>
    /\ tpc = "input"

ConceptNext ==
    \E config \in ConceptConfigs, entity_type \in EntityTypes :
        FindConceptsCall(config, entity_type)

SpecConcept == ConceptInit /\ [][ConceptNext]_vars

(***************************************************************************)
(* Claims about the concept matcher                                        *)
(***************************************************************************)
\* the (entry, concept) places of dictionary whose term shares enough words
\* with the entity: shared[k] of all[k] words for entry k
SimilarPlaces(dictionary, shared, all, min_similarity) ==
    { place \in (1..Len(dictionary)) \X (1..3) :
        /\ place[2] <= Len(dictionary[place[1]].concepts)
        /\ all[place[1]] > 0
        /\ shared[place[1]] * 10000 >= min_similarity * all[place[1]] }

\* C25: the matcher returns the exact dictionary matches of the
\* case-normalised entity text at confidence 0.95 whenever there are any;
\* only without an exact match and with approximate matching enabled it
\* returns the concepts of the terms whose word-set Jaccard similarity is at
\* least min_similarity, at confidence similarity x 0.9; the list is sorted
\* by confidence descending and has at most 3 entries; the entity type never
\* excludes a candidate.
C25_ExactFirstThenApproximate ==
    tpc = "find_concepts" =>
        LET ret == produced.ret
            dictionary == LoadConceptMappings(produced.config.case_sensitive)
            key == TermKey(produced.config.case_sensitive, text)
            words == SplitSet(key, 1)
            exact == ConceptsUnder(dictionary, key)
            shared == [k \in 1..Len(dictionary) |->
                          Cardinality(words \cap SplitSet(dictionary[k].term, 1))]
            all == [k \in 1..Len(dictionary) |->
                       Cardinality(words \cup SplitSet(dictionary[k].term, 1))]
            similar == SimilarPlaces(dictionary, shared, all, produced.config.min_similarity)
            match == [place \in similar |->
                         [concept |-> dictionary[place[1]].concepts[place[2]],
                          confidence |-> (shared[place[1]] * 9000) \div all[place[1]]]]
        IN /\ Len(ret) <= 3
           /\ \A i, j \in 1..Len(ret) : i < j => ret[i].confidence >= ret[j].confidence
           /\ IF exact # <<>>
              THEN /\ Len(ret) = Min({3, Len(exact)})
                   /\ \A k \in 1..Len(ret) :
                          ret[k] = [concept |-> exact[k], confidence |-> 9500]
              ELSE IF ~produced.config.use_approximate_matching
              THEN ret = <<>>
              ELSE /\ Len(ret) = Min({3, Cardinality(similar)})
                   /\ \E f \in [1..Len(ret) -> similar] :
                          /\ \A i, j \in 1..Len(ret) : i # j => f[i] # f[j]
                          /\ \A i \in 1..Len(ret) : ret[i] = match[f[i]]
                          /\ \A place \in similar :
                                 (\A i \in 1..Len(ret) : f[i] # place)
                                     => match[place].confidence <= ret[Len(ret)].confidence

\* "diabetes chest" as a medication with the floor at 0.3: no exact match,
\* more than three similar dictionary terms of two disorders, three matches
\* returned, the nearest first
C25_Witness ==
    /\ tpc = "find_concepts"
    /\ text = Spell.diabetes \o Space \o Spell.chest
    /\ produced.entity_type = "medication"
    /\ produced.config.min_similarity = 3000
    /\ Len(produced.ret) = 3
    /\ produced.ret[1].confidence = 4500
    /\ produced.ret[3].confidence = 3000
(***************************************************************************)
(* The max_scope option of the assertion stage                             *)
(***************************************************************************)
\* C26: a cue whose word distance to the entity exceeds the configured
\* max_scope does not apply to that entity, whatever the cue's own
\* max_distance
C26_MaxScopeLimitsCues ==
    apc = "done" =>
        \A k \in 1..Len(applicable_cues) : applicable_cues[k].distance <= max_scope
(***************************************************************************)
(* The entity, assertion and concept stages on one document, in the order  *)
(* of the default clinical pipeline: each stage reads the document and the *)
(* pipeline appends what it returns.                                       *)
(***************************************************************************)
\* longest document of the three stages, counted in pieces
MaxClinicalPieces == 3

\* the entries of entity_dictionaries that occur in the documents below, by
\* entity type in the order of the dictionary
EntityDictionaries ==
    << [term |-> Spell.chest_pain, name |-> "chest pain", entity_type |-> "disorder"],
       [term |-> Spell.diabetes, name |-> "diabetes", entity_type |-> "disorder"],
       [term |-> Spell.chest, name |-> "chest", entity_type |-> "anatomy"],
       [term |-> Spell.pain, name |-> "pain", entity_type |-> "sign_symptom"],
       [term |-> Spell.chest_pain, name |-> "chest pain", entity_type |-> "sign_symptom"] >>

\* _is_valid_match: no letter or digit right before or right after
IsValidMatch(t, start, end) ==
    /\ ~(start > 0 /\ t[start] \in WordChars)
    /\ ~(end < Len(t) /\ t[end + 1] \in WordChars)

\* the entity of one valid match of _rule_based_ner
RuleEntity(t, start, end, entry) ==
    [class |-> "NamedEntityAnnotation", kind |-> "named_entity",
     start |-> start, end |-> end, text |-> PySlice(t, start, end),
     entity_type |-> entry.entity_type, entity_subtype |-> None,
     confidence |-> DefaultConfidence,
     metadata |-> { <<"matched_term", entry.name>>, <<"method", "rule">> }]

\* re.finditer(re.escape(term.lower()), text) from offset pos on: the
\* matches left to right, none overlapping the one before
RECURSIVE TermMatches(_, _, _, _)
TermMatches(t, lowered, pos, entry) ==
    LET end == pos + Len(entry.term) IN
    IF end > Len(t) THEN <<>>
    ELSE IF SubSeq(lowered, pos + 1, end) = LowerText(entry.term)
    THEN (IF IsValidMatch(t, pos, end) THEN << RuleEntity(t, pos, end, entry) >> ELSE <<>>)
         \o TermMatches(t, lowered, end, entry)
    ELSE TermMatches(t, lowered, pos + 1, entry)

\* _rule_based_ner
RECURSIVE RuleBasedNer(_, _)
RuleBasedNer(t, entries) ==
    IF entries = <<>> THEN <<>>
    ELSE TermMatches(t, LowerText(t), 0, Head(entries)) \o RuleBasedNer(t, Tail(entries))

\* ClinicalNERAnnotator.annotate without a loaded model
NerAnnotate(t) == ResolveOverlaps(RuleBasedNer(t, EntityDictionaries))

\* the default "concept_mapping" options
DefaultConceptConfig ==
    [use_approximate_matching |-> TRUE, min_similarity |-> 8000, case_sensitive |-> FALSE]

\* the ConceptAnnotation of one match for the entity at position source of
\* the list annotate() reads
Concept(entity, source, match) ==
    [class |-> "ConceptAnnotation", kind |-> "concept",
     start |-> entity.start, end |-> entity.end, text |-> entity.text,
     concept_code |-> match.concept.cui,
     concept_name |-> match.concept.preferred_name,
     confidence |-> match.confidence,
     original_entity_type |-> entity.entity_type,
     source_entity |-> source]

\* the inner loop of UMLSConceptMapper.annotate for one entity
ConceptsOfEntity(config, entity, source) ==
    LET concepts == FindConcepts(config, entity.text, entity.entity_type)
    IN [k \in 1..Len(concepts) |-> Concept(entity, source, concepts[k])]

RECURSIVE ConceptLoop(_, _, _)
ConceptLoop(config, named, source) ==
    IF source > Len(named) THEN <<>>
    ELSE (IF named[source].class = "NamedEntityAnnotation"
          THEN ConceptsOfEntity(config, named[source], source)
          ELSE <<>>)
         \o ConceptLoop(config, named, source + 1)

\* UMLSConceptMapper.annotate(document)
ConceptAnnotate(config, anns) ==
    ConceptLoop(config, SelectSeq(anns, LAMBDA a : a.kind = "named_entity"), 1)

RunStage_Replace(name, annotations) ==
    /\ produced' = annotations
    /\ doc_annotations' = annotations
    /\ tpc' = name
    /\ UNCHANGED <<text, pvars, rvars, avars, hvars, bvars>>

\* one turn of the stage loop of process_document: the stage's annotations
\* are appended to the document
RunStage(name, annotations) ==
    /\ produced' = annotations
    /\ doc_annotations' = doc_annotations \o annotations
    /\ tpc' = name
    /\ UNCHANGED <<text, pvars, rvars, avars, hvars, bvars>>

RunNer == tpc = "input" /\ RunStage("ner", NerAnnotate(text))

RunAssertion == tpc = "ner" /\ RunStage("ner+assertion", AssertionAnnotate(text, doc_annotations))

\* the concept stage follows the assertion stage, or the entity stage in a
\* pipeline without an assertion stage
RunConcepts ==
    /\ tpc \in {"ner", "ner+assertion"}
    /\ RunStage(IF tpc = "ner" THEN "ner+concepts" ELSE "ner+assertion+concepts",
                ConceptAnnotate(DefaultConceptConfig, doc_annotations))

ClinicalPieces ==
    { Spell.denies, Spell.diabetes, Spell.chest_pain, Spell.Chest_Pain, Space, Period }

ClinicalTexts ==
    { Flatten(p) : p \in UNION { [1..n -> ClinicalPieces] : n \in 0..MaxClinicalPieces } }

\* process_text: a new Document(text=text) without annotations
ClinicalInit ==
    /\ PipelineInit /\ ~fail_on_error
    /\ ResolverIdle /\ AssertionIdle /\ StageIdle /\ BatchIdle
    /\ text \in ClinicalTexts
    /\ doc_annotations = <<>>
    /\ produced = <<>>
    /\ tpc = "input"

ClinicalNext == RunNer \/ RunAssertion \/ RunConcepts

SpecClinical == ClinicalInit /\ [][ClinicalNext]_vars

(***************************************************************************)
(* Claims about the stages of the clinical pipeline on one document        *)
(***************************************************************************)
\* the document's NAMED_ENTITY annotations, in document order
NamedInDocument == SelectSeq(doc_annotations, LAMBDA a : a.kind = "named_entity")

SpanOf(a) == <<a.start, a.end>>

IsLabelled(a) == \E item \in a.metadata : item[1] = "assertion"

\* the concept annotations the concept stage made from the named entity at
\* position source, as (code, confidence) pairs in their order
ConceptsFrom(source) ==
    LET made == SelectSeq(produced, LAMBDA c : c.source_entity = source)
    IN [k \in 1..Len(made) |-> <<made[k].concept_code, made[k].confidence>>]

\* C27: after the entity stage and then the assertion stage have run on a
\* document there are exactly two NAMED_ENTITY annotations for every span
\* the entity stage emitted, the original without assertion metadata and the
\* labelled copy; so the named entities are no longer pairwise
\* non-overlapping, and a following concept stage emits its concept
\* annotations for each entity twice.
C27_EntitiesAndConceptsDoubled ==
    tpc \in {"ner+assertion", "ner+assertion+concepts"} =>
        LET named == NamedInDocument
            emitted == NerAnnotate(text)
        IN /\ Len(named) = 2 * Len(emitted)
           /\ \A e \in 1..Len(emitted) :
                  LET same == { k \in 1..Len(named) : SpanOf(named[k]) = SpanOf(emitted[e]) }
                  IN /\ Cardinality(same) = 2
                     /\ Cardinality({ k \in same : named[k] = emitted[e] }) = 1
                     /\ Cardinality({ k \in same : IsLabelled(named[k]) }) = 1
           /\ emitted # <<>> =>
                  \E i, j \in 1..Len(named) : i # j /\ SpanOverlaps(named[i], named[j])
           /\ tpc = "ner+assertion+concepts" =>
                  /\ \A e \in 1..Len(emitted) :
                         /\ ~IsLabelled(named[e])
                         /\ IsLabelled(named[Len(emitted) + e])
                         /\ SpanOf(named[e]) = SpanOf(named[Len(emitted) + e])
                         /\ ConceptsFrom(e) = ConceptsFrom(Len(emitted) + e)
                  /\ \A c \in 1..Len(produced) : produced[c].source_entity \in 1..Len(named)

\* "chest pain diabetes" denied: two entities, four NAMED_ENTITY annotations
\* after the assertion stage, and the concept stage emits the concepts of
\* both entities twice
C27_Witness ==
    /\ tpc = "ner+assertion+concepts"
    /\ Len(NamedInDocument) = 4
    /\ Len(produced) >= 4
    /\ ConceptsFrom(1) # <<>>
    /\ ConceptsFrom(3) = ConceptsFrom(1)
    /\ ConceptsFrom(2) # <<>>

\* the concept annotations made from the named entity at position source
MadeFrom(source) == SelectSeq(produced, LAMBDA c : c.source_entity = source)

\* the concepts that list term both as preferred name and as a synonym,
\* case aside
IndexedTwiceUnder(key) ==
    { c \in Range(Concepts) :
        /\ LowerText(c.preferred_name) = key
        /\ \E s \in Range(c.synonyms) : LowerText(s) = key }

\* C29: for one entity the concept stage emits one concept annotation per
\* dictionary entry listed under the matched term, without deduplicating by
\* concept code; a concept indexed under one normalised key by its preferred
\* name and by a synonym gives two concept annotations with the same code,
\* span and confidence for that entity.
C29_OneAnnotationPerDictionaryEntry ==
    tpc \in {"ner+concepts", "ner+assertion+concepts"} =>
        \A k \in 1..Len(NamedInDocument) :
            LET entity == NamedInDocument[k]
                key == LowerText(entity.text)
                listed == ConceptsUnder(LoweredDictionary, key)
                made == MadeFrom(k)
            IN /\ listed # <<>> =>
                      /\ Len(made) = Min({3, Len(listed)})
                      /\ \A j \in 1..Len(made) :
                             /\ made[j].concept_code = listed[j].cui
                             /\ SpanOf(made[j]) = SpanOf(entity)
                             /\ made[j].confidence = 9500
               /\ \A c \in IndexedTwiceUnder(key) :
                      \E i, j \in 1..Len(made) :
                          /\ i # j
                          /\ made[i].concept_code = c.cui /\ made[j].concept_code = c.cui
                          /\ SpanOf(made[i]) = SpanOf(made[j])
                          /\ made[i].confidence = made[j].confidence

\* the entity "Chest Pain" got the concept C0008031 twice
C29_Witness ==
    /\ tpc = "ner+concepts"
    /\ Len(NamedInDocument) = 1
    /\ NamedInDocument[1].text = Spell.Chest_Pain
    /\ Len(produced) = 2
    /\ produced[1].concept_code = "C0008031"
    /\ produced[2].concept_code = "C0008031"
(***************************************************************************)
(* The statuses the assertion engine returns                               *)
(***************************************************************************)
\* the positions of applicable_cues whose cue has a category the engine maps
DecisivePositions ==
    { k \in 1..Len(applicable_cues) :
          applicable_cues[k].cue.category \in RecognisedCategories }

\* C28: the engine returns PRESENT, ABSENT, POSSIBLE, FAMILY_HISTORY,
\* HISTORICAL or HYPOTHETICAL and never CONDITIONAL; an applicable cue of
\* another category than negation, uncertainty, family_history, historical,
\* hypothetical is skipped, and the nearest applicable cue of a recognised
\* category decides, or PRESENT if there is none.
C28_NeverConditional ==
    apc = "done" =>
        /\ assertion \in { "PRESENT", "ABSENT", "POSSIBLE", "FAMILY_HISTORY",
                           "HISTORICAL", "HYPOTHETICAL" }
        /\ assertion # "CONDITIONAL"
        /\ IF DecisivePositions = {}
           THEN assertion = "PRESENT"
           ELSE LET first == Min(DecisivePositions)
                IN /\ assertion = AssertionOf(applicable_cues[first].cue.category)
                   /\ \A k \in DecisivePositions :
                          applicable_cues[first].distance <= applicable_cues[k].distance

\* the custom cue "provided" of category "conditional" is the nearest
\* applicable cue and "denies", farther away, decides
C28_Witness ==
    /\ apc = "done"
    /\ Len(applicable_cues) = 2
    /\ applicable_cues[1].cue.category = "conditional"
    /\ applicable_cues[1].distance < applicable_cues[2].distance
    /\ applicable_cues[2].cue.literal = "denies"
    /\ assertion = "ABSENT"
(***************************************************************************)
(* Cue discovery: _tokenize_with_positions and _find_context_cues on a     *)
(* text, with the lookup that initialize() builds from the default cues    *)
(***************************************************************************)
MaxCuePieces == 5

\* the pieces the texts of the cue discovery are put together from
CuePieces ==
    { Spell.denies, Spell.Family, Spell.history, Spell.of, Spell.h_o, Space }

CueTexts ==
    { Flatten(pieces) : pieces \in UNION { [1..n -> CuePieces] : n \in 0..MaxCuePieces } }

\* words, positions = _tokenize_with_positions(text);
\* cue_matches = _find_context_cues(words, positions)
FindCuesCall ==
    /\ tpc = "input"
    /\ produced' = FindContextCues(TokenizeWithPositions(text))
    /\ tpc' = "cues"
    /\ UNCHANGED <<text, doc_annotations, pvars, rvars, avars, hvars, bvars>>

CueInit ==
    /\ PipelineInit /\ ~fail_on_error
    /\ ResolverIdle /\ AssertionIdle /\ StageIdle /\ BatchIdle
    /\ text \in CueTexts
    /\ doc_annotations = <<>>
    /\ produced = <<>>
    /\ tpc = "input"

CueNext == FindCuesCall

SpecCues == CueInit /\ [][CueNext]_vars

(***************************************************************************)
(* Claims about cue discovery                                              *)
(***************************************************************************)
\* the words of the document: the tokens of the lowered text
DocumentWords == [k \in 1..Len(TokenizeWithPositions(text)) |->
                      TokenizeWithPositions(text)[k].word]

\* the words of cue stand at the word positions i, i+1, ... (from 0)
WordsStandAt(words, cue, i) ==
    LET parts == LiteralWords(cue.literal)
    IN /\ i + Len(parts) <= Len(words)
       /\ \A j \in 1..Len(parts) : words[i + j] = parts[j]

\* every character of part is a word character
IsWordToken(part) == \A k \in 1..Len(part) : part[k] \in WordChars

\* C30: cue discovery reports exactly the occurrences where the cue's
\* whitespace-split words equal consecutive word tokens of the document:
\* every reported match is such an occurrence, every such occurrence of a
\* default cue is reported once, and a cue with a character that is not a
\* word character inside a part ("h/o") is reported for no text.
C30_CuesFoundAtTheirWordSequences ==
    tpc = "cues" =>
        LET words == DocumentWords
            cues == { LoadDefaultCues[c] : c \in 1..Len(LoadDefaultCues) }
        IN /\ \A k \in 1..Len(produced) :
                  /\ produced[k].cue \in cues
                  /\ WordsStandAt(words, produced[k].cue, produced[k].start_word)
                  /\ produced[k].end_word =
                         produced[k].start_word
                             + Len(LiteralWords(produced[k].cue.literal)) - 1
           /\ \A cue \in cues : \A i \in 0..(Len(words) - 1) :
                  WordsStandAt(words, cue, i) =>
                      Cardinality({ k \in 1..Len(produced) :
                                        /\ produced[k].cue = cue
                                        /\ produced[k].start_word = i }) = 1
           /\ \A cue \in cues :
                  (\E j \in 1..Len(LiteralWords(cue.literal)) :
                       ~IsWordToken(LiteralWords(cue.literal)[j]))
                      => \A k \in 1..Len(produced) : produced[k].cue # cue

\* "h/o history of": "history of" is found at its two words, "h/o" stands
\* in the text as the words "h" and "o" and is not found
C30_Witness ==
    /\ tpc = "cues"
    /\ text = Flatten(<< Spell.h_o, Space, Spell.history, Space, Spell.of >>)
    /\ Len(produced) = 1
    /\ produced[1].cue.literal = "history of"
    /\ produced[1].start_word = 2
    /\ produced[1].end_word = 3

====
